---- MODULE Spec2Model ----
(***************************************************************************)
(* Record-management service layer of the personal finance / todo app:     *)
(* todoService.js, expenseService.js and utils/storage.js over the         *)
(* browser's localStorage.                                                 *)
(*                                                                         *)
(* JavaScript values are modelled as follows.                              *)
(*   - an object is a function from its own property names to values;      *)
(*   - a property holding `undefined` holds Undefined (string properties), *)
(*     JSUndef (amount, id) or UndefinedDate (date); flags and timestamps  *)
(*     are always defined;                                                 *)
(*   - an amount or an id is a tagged value: a number, a text, NaN, an     *)
(*     infinity, null or undefined; a finite number is a double, kept as   *)
(*     its floor and the binary digits of its fraction, a text the         *)
(*     sequence of its UTF-16 code units;                                  *)
(*   - a date string is the sequence of its UTF-16 code units, so that     *)
(*     < and > on dates are the code-unit comparisons JavaScript makes;    *)
(*   - an ISO timestamp is the millisecond count it denotes;               *)
(*   - a stored text is what JSON.stringify produced ([kind, items], the   *)
(*     items being the JSON texts of the objects), a missing key has kind  *)
(*     "absent".                                                           *)
(***************************************************************************)
EXTENDS Integers, Sequences, FiniteSets, TLC

VARIABLES ls, now, last

vars == <<ls, now, last>>

(***************************************************************************)
(* Bounds of the model.                                                    *)
(***************************************************************************)
MaxNow == 1
MaxRecords == 2
MaxLedger == 3
MaxStored == 2
RandomBits == 1

(***************************************************************************)
(* JavaScript values.                                                      *)
(***************************************************************************)
Undefined == "<undefined>"

\* a finite number is a double: n is its floor and b the binary digits of
\* its fraction, the last of them a 1 (<<>> for an integer); Infinity and
\* -Infinity carry their sign in n
Num(n) == [k |-> "num", n |-> n, b |-> <<>>, s |-> <<>>]
Double(n, b) == [k |-> "num", n |-> n, b |-> b, s |-> <<>>]
Str(s) == [k |-> "str", n |-> 0, b |-> <<>>, s |-> s]
JSNaN == [k |-> "nan", n |-> 0, b |-> <<>>, s |-> <<>>]
JSNull == [k |-> "null", n |-> 0, b |-> <<>>, s |-> <<>>]
JSUndef == [k |-> "undef", n |-> 0, b |-> <<>>, s |-> <<>>]
JSInf(sign) == [k |-> "inf", n |-> sign, b |-> <<>>, s |-> <<>>]

StringFields ==
  {"text", "description", "category", "priority", "type", "time", "title"}

\* the properties that hold a tagged value
NumberFields == {"amount", "id"}

\* undefined where a date string is expected (no string holds this unit)
UndefinedDate == <<-1>>

\* const x = value, and the statements Op that follow it: the value is worked
\* out once, where it is declared
Bind(value, Op(_)) == Op(value)

Has(obj, f) == f \in DOMAIN obj

\* obj.date, undefined when the object has no such property
GetDate(obj) == IF Has(obj, "date") THEN obj.date ELSE UndefinedDate

\* obj.f for a flag is truthy
Flag(obj, f) == Has(obj, f) /\ obj[f]

\* obj.f for a string property: undefined when the object has no such property
GetStr(obj, f) == IF Has(obj, f) THEN obj[f] ELSE Undefined

\* x || dflt for a string property: undefined and '' are falsy
OrDefault(x, dflt) == IF x = Undefined \/ x = "" THEN dflt ELSE x

\* { ...a, ...b }
Spread(a, b) ==
  [f \in (DOMAIN a) \cup (DOMAIN b) |-> IF f \in DOMAIN b THEN b[f] ELSE a[f]]

(***************************************************************************)
(* Numbers and their texts: Number::toString, padStart, parseFloat,        *)
(* Number(text), + and -.  A text is the sequence of its UTF-16 code       *)
(* units.  A finite number is a double of a magnitude between 2^-1022 and  *)
(* 2^31: literals and sums are rounded to 53 significant binary digits,    *)
(* ties to even, and a number is written with the fewest decimal digits    *)
(* that read back as the same double.  -0 is not told from 0.              *)
(***************************************************************************)
Dash == 45
Digit(d) == 48 + d

\* n.toString() for a non-negative integer
RECURSIVE ToStringNat(_)
ToStringNat(n) ==
  IF n < 10 THEN <<Digit(n)>> ELSE ToStringNat(n \div 10) \o <<Digit(n % 10)>>

\* s.padStart(2, '0')
padStart2(s) == IF Len(s) < 2 THEN <<Digit(0)>> \o s ELSE s

IsDigit(c) == c >= 48 /\ c <= 57

\* the number a run of digits denotes
RECURSIVE DigitsValue(_)
DigitsValue(s) ==
  IF s = <<>> THEN 0
  ELSE 10 * DigitsValue(SubSeq(s, 1, Len(s) - 1)) + (s[Len(s)] - 48)

\* a < b on strings: comparison of code units, a proper prefix is smaller
RECURSIVE StrLess(_, _)
StrLess(a, b) ==
  IF b = <<>> THEN FALSE
  ELSE IF a = <<>> THEN TRUE
  ELSE IF Head(a) # Head(b) THEN Head(a) < Head(b)
  ELSE StrLess(Tail(a), Tail(b))

RECURSIVE Pow10(_)
Pow10(e) == IF e = 0 THEN 1 ELSE 10 * Pow10(e - 1)

RECURSIVE Zeros(_)
Zeros(k) == IF k <= 0 THEN <<>> ELSE <<Digit(0)>> \o Zeros(k - 1)

\* the number of binary digits of n, 0 <= n < 2^31
BitLength(n) ==
  CHOOSE k \in 0..31 : (k = 0 \/ n >= 2^(k - 1)) /\ (k = 31 \/ n < 2^k)

\* the last position of d that holds a digit other than top, 0 for none
LastBelow(d, top) ==
  IF \A i \in 1..Len(d) : d[i] = top THEN 0
  ELSE CHOOSE i \in 1..Len(d) :
         d[i] # top /\ \A j \in (i + 1)..Len(d) : d[j] = top

\* d without the zeros at its end
StripZeros(d) == SubSeq(d, 1, LastBelow(d, 0))

\* the number of zeros at the head of d
LeadingZeros(d) ==
  IF \A i \in 1..Len(d) : d[i] = 0 THEN Len(d)
  ELSE (CHOOSE i \in 1..Len(d) : d[i] # 0 /\ \A j \in 1..(i - 1) : d[j] = 0) - 1

\* the digits d plus one in the last place, j the last position below the
\* top digit: the carry, then the digits
IncrementAt(d, j) ==
  IF j = 0 THEN <<1>> \o [i \in 1..Len(d) |-> 0]
  ELSE <<0>> \o [i \in 1..Len(d) |->
                   IF i < j THEN d[i] ELSE IF i = j THEN d[i] + 1 ELSE 0]

Increment(d, top) == IncrementAt(d, LastBelow(d, top))

\* n + 0.b cut after k binary digits of the fraction and rounded to the
\* nearest, ties to even; b ends in a 1, which may stand for digits beyond it
RoundAt(n, b, k) ==
  IF Len(b) <= k THEN Double(n, StripZeros(b))
  ELSE IF b[k + 1] = 1 /\ (Len(b) > k + 1 \/ b[k] = 1)
       THEN Double(n + Increment(SubSeq(b, 1, k), 1)[1],
                   StripZeros(Tail(Increment(SubSeq(b, 1, k), 1))))
  ELSE Double(n, StripZeros(SubSeq(b, 1, k)))

\* the double nearest to n + 0.b, n >= 0: 53 significant binary digits
Round(n, b) ==
  RoundAt(n, b, IF n > 0 THEN 53 - BitLength(n) ELSE 53 + LeadingZeros(b))

\* 1 - 0.b for a fraction that ends in a 1
Complement(b) ==
  <<>> \o [i \in 1..Len(b) |-> IF i = Len(b) THEN b[i] ELSE 1 - b[i]]

\* -v for a number
Negate(v) ==
  IF v.k = "inf" \/ (v.k = "num" /\ v.b = <<>>) THEN [v EXCEPT !.n = 0 - v.n]
  ELSE IF v.k = "num" THEN Double(0 - v.n - 1, Complement(v.b))
  ELSE v

\* the double nearest to n + 0.b, n of either sign
RoundSigned(n, b) ==
  IF b = <<>> THEN Num(n)
  ELSE IF n >= 0 THEN Round(n, b)
  ELSE Negate(Round(0 - n - 1, Complement(b)))

\* p / 2^e, 0 <= p and e < 31
Dyadic(p, e) ==
  Double(p \div 2^e, StripZeros([i \in 1..e |-> (p \div 2^(e - i)) % 2]))

\* twice the decimal fraction 0.D, without its integer part
DoubleDigits(D) ==
  <<>> \o [i \in 1..Len(D) |->
            (2 * D[i] + (IF i < Len(D) /\ D[i + 1] >= 5 THEN 1 ELSE 0)) % 10]

\* the conversion of a decimal fraction to binary digits: the digits
\* produced, the decimal fraction left, the significant digits still to
\* produce and whether a significant digit has been produced
Conversion(bits, D, need, started) ==
  [bits |-> bits, D |-> D, need |-> need, started |-> started]

\* no digit is left to produce
Converted(c) == c.need = 0 \/ \A i \in 1..Len(c.D) : c.D[i] = 0

\* one more binary digit: the integer part of twice the fraction
NextBit(c) ==
  IF c.D[1] >= 5
  THEN Conversion(Append(c.bits, 1), DoubleDigits(c.D), c.need - 1, TRUE)
  ELSE Conversion(Append(c.bits, 0), DoubleDigits(c.D),
                  IF c.started THEN c.need - 1 ELSE c.need, c.started)

\* k more binary digits, or as many as are left to produce
RECURSIVE NextBits(_, _)
NextBits(c, k) ==
  IF k = 0 \/ Converted(c) THEN c
  ELSE IF k = 1 THEN NextBit(c)
  ELSE NextBits(NextBits(c, k \div 2), k - k \div 2)

\* the digits of a conversion that has ended, a 1 after them when the
\* fraction goes on
BitsOf(c) ==
  IF \A i \in 1..Len(c.D) : c.D[i] = 0 THEN c.bits ELSE Append(c.bits, 1)

\* the binary digits of the decimal fraction 0.D after an integer part n:
\* as far as the digit that decides the rounding to 53 significant digits
\* (a decimal digit takes less than 4 binary digits)
DecimalBits(n, D) ==
  BitsOf(NextBits(Conversion(<<>>, D, 54 - BitLength(n), n > 0), 54 + 4 * Len(D)))

\* the double nearest to n + 0.D, n >= 0 and D decimal digits
DecimalToDouble(n, D) == Round(n, DecimalBits(n, D))

\* (bit + 0.D) / 2 as a decimal fraction
Halve(bit, D) ==
  <<>> \o [j \in 1..(Len(D) + 1) |->
            IF j <= Len(D)
            THEN (10 * ((IF j = 1 THEN bit ELSE D[j - 1]) % 2) + D[j]) \div 2
            ELSE 5 * ((IF j = 1 THEN bit ELSE D[j - 1]) % 2)]

\* the decimal digits of the fraction that k more digits of the binary
\* fraction 0.b make (or as many as it has), D those of the fraction its
\* last Len(D) digits make
RECURSIVE HalveSteps(_, _, _)
HalveSteps(b, D, k) ==
  IF k = 0 \/ Len(D) = Len(b) THEN D
  ELSE IF k = 1 THEN Halve(b[Len(b) - Len(D)], D)
  ELSE HalveSteps(b, HalveSteps(b, D, k \div 2), k - k \div 2)

\* the decimal digits of the binary fraction 0.b
FractionDigits(b) == HalveSteps(b, <<>>, Len(b))

\* of the two decimals of q digits around 0.D, the one above is the nearer
\* (the even one when they are as near)
AboveIsNearer(D, q) ==
  \/ D[q + 1] > 5
  \/ D[q + 1] = 5 /\ ((\E i \in (q + 2)..Len(D) : D[i] # 0) \/ D[q] % 2 = 1)

\* the decimal c (its carry into the integer part, then its digits) reads
\* back as v
RoundTrips(v, c) == DecimalToDouble(v.n + c[1], Tail(c)) = v

\* a decimal of q fraction digits reads back as v, a double whose decimal
\* digits are D
ReadsBackAt(v, D, q) ==
  \/ q >= Len(D)
  \/ RoundTrips(v, <<0>> \o SubSeq(D, 1, q))
  \/ RoundTrips(v, Increment(SubSeq(D, 1, q), 9))

\* the least number of a set of numbers
Least(S) == CHOOSE q \in S : \A p \in S : q <= p

\* the decimal of q fraction digits that reads back as v: of two of them
\* the nearer to v
NearestAt(v, D, q) ==
  IF q >= Len(D) THEN D
  ELSE IF RoundTrips(v, Increment(SubSeq(D, 1, q), 9))
          /\ (AboveIsNearer(D, q) \/ ~RoundTrips(v, <<0>> \o SubSeq(D, 1, q)))
       THEN StripZeros(Tail(Increment(SubSeq(D, 1, q), 9)))
  ELSE SubSeq(D, 1, q)

\* the fewest decimal digits of the fraction that read back as v, a double
\* with the decimal digits D whose first significant digit is at q or
\* before: 17 significant digits tell every double from the others
ShortestDigits(v, D, q) ==
  NearestAt(v, D, Least({p \in q..(q + 16) : ReadsBackAt(v, D, p)}))

\* the code units of decimal digits
DigitCodes(D) == <<>> \o [i \in 1..Len(D) |-> Digit(D[i])]

\* n and the fraction digits F as Number::toString writes them: with a
\* point, and in the exponent form below 1e-6
FormatDecimal(n, F) ==
  IF n > 0 \/ LeadingZeros(F) < 6 THEN ToStringNat(n) \o <<46>> \o DigitCodes(F)
  ELSE <<Digit(F[LeadingZeros(F) + 1])>>
         \o (IF Len(F) > LeadingZeros(F) + 1
             THEN <<46>> \o DigitCodes(SubSeq(F, LeadingZeros(F) + 2, Len(F)))
             ELSE <<>>)
         \o <<101, Dash>> \o ToStringNat(LeadingZeros(F) + 1)

\* Number::toString of a number that is not negative, D the decimal digits
\* of its fraction
MagnitudeToString(m, D) ==
  IF m.b = <<>> THEN ToStringNat(m.n)
  ELSE FormatDecimal(m.n, ShortestDigits(m, D, IF m.n > 0 THEN 1
                                               ELSE LeadingZeros(D) + 1))

\* text after the minus sign of a negative number
Signed(negative, text) == IF negative THEN <<Dash>> \o text ELSE text

\* Number::toString of a magnitude
MagnitudeText(m) == MagnitudeToString(m, FractionDigits(m.b))

\* Number::toString of a finite number
NumberToString(v) == Signed(v.n < 0, MagnitudeText(IF v.n < 0 THEN Negate(v) ELSE v))

\* the code units StrWhiteSpaceChar covers: white space and line terminators
WhiteSpace ==
  {9, 10, 11, 12, 13, 32, 160, 5760, 8232, 8233, 8239, 8287, 12288, 65279}
    \cup (8192..8202)

RECURSIVE TrimStart(_)
TrimStart(s) ==
  IF s # <<>> /\ Head(s) \in WhiteSpace THEN TrimStart(Tail(s)) ELSE s

RECURSIVE TrimEnd(_)
TrimEnd(s) ==
  IF s # <<>> /\ s[Len(s)] \in WhiteSpace
  THEN TrimEnd(SubSeq(s, 1, Len(s) - 1)) ELSE s

\* the number of digits s holds from position i on
RECURSIVE DigitsAt(_, _)
DigitsAt(s, i) ==
  IF i <= Len(s) /\ IsDigit(s[i]) THEN 1 + DigitsAt(s, i + 1) ELSE 0

\* 'Infinity'
InfinityText == <<73, 110, 102, 105, 110, 105, 116, 121>>

\* the StrDecimalLiteral mantissa of s at position i: the number of its
\* integer digits, that of its fraction digits, and its length (0 when
\* there is none: a decimal point needs digits on one side at least)
MantissaAt(s, i) ==
  LET ni == DigitsAt(s, i)
      hasDot == i + ni <= Len(s) /\ s[i + ni] = 46
      nf == IF hasDot THEN DigitsAt(s, i + ni + 1) ELSE 0
  IN  [ni |-> ni, nf |-> nf,
       len |-> IF ni + nf = 0 THEN 0 ELSE ni + (IF hasDot THEN 1 + nf ELSE 0)]

\* the ExponentPart of s at position j: its length (0 unless digits follow
\* the e and its sign), the exponent, and whether its sign is a minus
ExponentAt(s, j) ==
  LET hasE == j <= Len(s) /\ s[j] \in {101, 69}
      signLen == IF hasE /\ j + 1 <= Len(s) /\ s[j + 1] \in {43, 45} THEN 1 ELSE 0
      ne == IF hasE THEN DigitsAt(s, j + 1 + signLen) ELSE 0
  IN  [len |-> IF ne > 0 THEN 1 + signLen + ne ELSE 0,
       exp |-> DigitsValue(SubSeq(s, j + 1 + signLen, j + signLen + ne)),
       neg |-> signLen = 1 /\ s[j + 1] = 45]

\* the double nearest to the decimal whose digits are the code units `all`,
\* `point` of them before the decimal point
PlacePoint(all, point) ==
  IF point <= 0
  THEN DecimalToDouble(0, <<>> \o [i \in 1..(Len(all) - point) |->
                                      IF i <= 0 - point THEN 0
                                      ELSE all[i + point] - 48])
  ELSE IF point >= Len(all)
  THEN Num(DigitsValue(all) * Pow10(point - Len(all)))
  ELSE DecimalToDouble(DigitsValue(SubSeq(all, 1, point)),
                       <<>> \o [i \in 1..(Len(all) - point) |->
                                  all[point + i] - 48])

\* the value of the literal of s at position i with mantissa m and exponent
\* part e
LiteralValue(s, i, m, e) ==
  PlacePoint(SubSeq(s, i, i + m.ni - 1)
               \o SubSeq(s, i + m.ni + 1, i + m.ni + m.nf),
             m.ni + (IF e.len = 0 THEN 0 ELSE IF e.neg THEN 0 - e.exp ELSE e.exp))

\* the literal of s at position i, its mantissa m given
ScanLiteral(s, i, m, e) ==
  IF m.len = 0 THEN [len |-> 0, val |-> JSNaN]
  ELSE [len |-> m.len + e.len, val |-> LiteralValue(s, i, m, e)]

\* the longest StrUnsignedDecimalLiteral of s that starts at position i: its
\* length (0 when there is none) and its value.  Infinity, digits, a decimal
\* point with digits on one side at least, and an exponent part when digits
\* follow the e
ScanUnsigned(s, i) ==
  IF i + 7 <= Len(s) /\ SubSeq(s, i, i + 7) = InfinityText
  THEN [len |-> 8, val |-> JSInf(1)]
  ELSE ScanLiteral(s, i, MantissaAt(s, i), ExponentAt(s, i + MantissaAt(s, i).len))

\* the length of the sign at the head of s
SignLen(s) == IF s # <<>> /\ s[1] \in {43, 45} THEN 1 ELSE 0

\* the unsigned literal u that follows a sign of length signLen in s
WithSign(s, signLen, u) ==
  IF u.len = 0 THEN u
  ELSE [len |-> signLen + u.len,
        val |-> IF signLen = 1 /\ s[1] = 45 THEN Negate(u.val) ELSE u.val]

\* an optional sign and an unsigned literal at the head of s
ScanSigned(s) == WithSign(s, SignLen(s), ScanUnsigned(s, 1 + SignLen(s)))

\* the value of a digit of a 0x, 0o or 0b literal, 99 for another code unit
DigitOfRadix(c) ==
  IF IsDigit(c) THEN c - 48
  ELSE IF c >= 97 /\ c <= 102 THEN c - 87
  ELSE IF c >= 65 /\ c <= 70 THEN c - 55
  ELSE 99

RECURSIVE RadixValue(_, _)
RadixValue(s, radix) ==
  IF s = <<>> THEN 0
  ELSE radix * RadixValue(SubSeq(s, 1, Len(s) - 1), radix) + DigitOfRadix(s[Len(s)])

\* the radix a 0x / 0o / 0b prefix announces, 0 for no such prefix
RadixOf(s) ==
  IF Len(s) < 2 \/ s[1] # 48 THEN 0
  ELSE IF s[2] \in {120, 88} THEN 16
  ELSE IF s[2] \in {111, 79} THEN 8
  ELSE IF s[2] \in {98, 66} THEN 2
  ELSE 0

\* String(v)
ToStringVal(v) ==
  IF v.k = "str" THEN v.s
  ELSE IF v.k = "num" THEN NumberToString(v)
  ELSE IF v.k = "inf" THEN (IF v.n < 0 THEN <<Dash>> ELSE <<>>) \o InfinityText
  ELSE IF v.k = "nan" THEN <<78, 97, 78>>
  ELSE IF v.k = "null" THEN <<110, 117, 108, 108>>
  ELSE <<117, 110, 100, 101, 102, 105, 110, 101, 100>>

\* parseFloat(v): the text of v, leading white space skipped, and the
\* longest prefix of it that is a decimal literal; NaN when there is none
parseFloat(v) == ScanSigned(TrimStart(ToStringVal(v))).val

\* the number the literal u is when it covers the whole of t
WholeLiteral(t, u) == IF u.len = Len(t) THEN u.val ELSE JSNaN

\* StringToNumber on a trimmed text: the empty text is 0, a 0x, 0o or 0b
\* prefix announces digits of that radix, and anything else has to be a
\* decimal literal as a whole
StringToNumber(t, radix) ==
  IF t = <<>> THEN Num(0)
  ELSE IF radix # 0
       THEN IF Len(t) > 2 /\ \A i \in 3..Len(t) : DigitOfRadix(t[i]) < radix
            THEN Num(RadixValue(SubSeq(t, 3, Len(t)), radix))
            ELSE JSNaN
  ELSE WholeLiteral(t, ScanSigned(t))

\* ToNumber(v), Number(v): the whole text, white space around it trimmed, has
\* to be a literal; the empty text is 0
ToNumber(v) ==
  IF v.k \in {"num", "inf", "nan"} THEN v
  ELSE IF v.k = "null" THEN Num(0)
  ELSE IF v.k = "undef" THEN JSNaN
  ELSE StringToNumber(TrimEnd(TrimStart(v.s)), RadixOf(TrimEnd(TrimStart(v.s))))

\* the digit of the fraction b at position i
BitAt(b, i) == IF i <= Len(b) THEN b[i] ELSE 0

\* 0.a + 0.b carries into position i: a position after i holds two 1s, and
\* every position between them one 1
CarryInto(a, b, i, len) ==
  \E j \in (i + 1)..len :
    /\ BitAt(a, j) + BitAt(b, j) = 2
    /\ \A k \in (i + 1)..(j - 1) : BitAt(a, k) + BitAt(b, k) = 1

\* the digits of 0.a + 0.b, without its integer part
AddBits(a, b, len) ==
  <<>> \o [i \in 1..len |->
            (BitAt(a, i) + BitAt(b, i)
               + (IF CarryInto(a, b, i, len) THEN 1 ELSE 0)) % 2]

\* x + y on two numbers: the double nearest to the sum
NumberAdd(x, y) ==
  IF x.k = "nan" \/ y.k = "nan" THEN JSNaN
  ELSE IF x.k = "inf" /\ y.k = "inf" THEN (IF x.n = y.n THEN x ELSE JSNaN)
  ELSE IF x.k = "inf" THEN x
  ELSE IF y.k = "inf" THEN y
  ELSE RoundSigned(x.n + y.n + (IF CarryInto(x.b, y.b, 0, Len(x.b) + Len(y.b))
                                THEN 1 ELSE 0),
                   StripZeros(AddBits(x.b, y.b, Len(x.b) + Len(y.b))))

\* a + b: concatenation as soon as one side is a string
JSAdd(a, b) ==
  IF a.k = "str" \/ b.k = "str" THEN Str(ToStringVal(a) \o ToStringVal(b))
  ELSE NumberAdd(ToNumber(a), ToNumber(b))

\* a - b: both sides converted to numbers
JSSub(a, b) == NumberAdd(ToNumber(a), Negate(ToNumber(b)))

\* x < y on two numbers, false as soon as one is NaN
NumLess(x, y) ==
  IF x.k = "nan" \/ y.k = "nan" THEN FALSE
  ELSE IF x.k = "inf" THEN x.n < 0 /\ ~(y.k = "inf" /\ y.n < 0)
  ELSE IF y.k = "inf" THEN y.n > 0
  ELSE \/ x.n < y.n
       \/ /\ x.n = y.n
          /\ \E i \in 1..Len(y.b) :
               /\ BitAt(x.b, i) < y.b[i]
               /\ \A j \in 1..(i - 1) : BitAt(x.b, j) = y.b[j]

\* a === b: the same type and the same value, NaN equal to nothing
StrictEquals(a, b) == a = b /\ a.k # "nan"

\* v is falsy: 0, NaN, '', null or undefined
Falsy(v) ==
  \/ v.k \in {"nan", "null", "undef"}
  \/ v.k = "num" /\ v.n = 0 /\ v.b = <<>>
  \/ v.k = "str" /\ v.s = <<>>

(***************************************************************************)
(* JSON.stringify / JSON.parse on arrays of flat objects.  The text of an  *)
(* array is kept as the sequence of the texts of its objects, and the text *)
(* of an object as a function from the property names it writes to the     *)
(* JSON text of each value: an id or an amount as a sequence of code       *)
(* units (a number in its decimal digits, a text between quotes with its   *)
(* escapes, null for null, NaN and the infinities), a flag as true or      *)
(* false.  A date, a string property that the model names rather than      *)
(* spells, and a timestamp stand for their quoted texts.                   *)
(***************************************************************************)
NullText == <<110, 117, 108, 108>>
TrueText == <<116, 114, 117, 101>>
FalseText == <<102, 97, 108, 115, 101>>

IsUndefinedProp(obj, f) ==
  IF f \in StringFields THEN obj[f] = Undefined
  ELSE IF f \in NumberFields THEN obj[f].k = "undef"
  ELSE IF f = "date" THEN obj[f] = UndefinedDate
  ELSE FALSE

\* a lowercase hexadecimal digit
HexDigit(d) == IF d < 10 THEN 48 + d ELSE 87 + d

\* the code unit at position i of s is a surrogate without its partner
IsLoneSurrogate(s, i) ==
  \/ /\ s[i] >= 55296 /\ s[i] <= 56319
     /\ ~(i < Len(s) /\ s[i + 1] >= 56320 /\ s[i + 1] <= 57343)
  \/ /\ s[i] >= 56320 /\ s[i] <= 57343
     /\ ~(i > 1 /\ s[i - 1] >= 55296 /\ s[i - 1] <= 56319)

\* QuoteJSONString on the code unit at position i of s
EscapedAt(s, i) ==
  LET c == s[i]
  IN  IF c = 34 THEN <<92, 34>>
      ELSE IF c = 92 THEN <<92, 92>>
      ELSE IF c = 8 THEN <<92, 98>>
      ELSE IF c = 9 THEN <<92, 116>>
      ELSE IF c = 10 THEN <<92, 110>>
      ELSE IF c = 12 THEN <<92, 102>>
      ELSE IF c = 13 THEN <<92, 114>>
      ELSE IF c < 32 \/ IsLoneSurrogate(s, i)
      THEN <<92, 117, HexDigit(c \div 4096), HexDigit((c \div 256) % 16),
             HexDigit((c \div 16) % 16), HexDigit(c % 16)>>
      ELSE <<c>>

\* the escaped code units of s from position i to position j
RECURSIVE EscapedRange(_, _, _)
EscapedRange(s, i, j) ==
  IF i > j THEN <<>>
  ELSE IF i = j THEN EscapedAt(s, i)
  ELSE EscapedRange(s, i, (i + j) \div 2) \o EscapedRange(s, (i + j) \div 2 + 1, j)

\* QuoteJSONString(s)
Quote(s) ==
  IF \A i \in 1..Len(s) : EscapedAt(s, i) = <<s[i]>> THEN <<34>> \o s \o <<34>>
  ELSE <<34>> \o EscapedRange(s, 1, Len(s)) \o <<34>>

\* the code unit the escape at position i of s denotes
Unescaped(s, i) ==
  LET c == s[i + 1]
  IN  IF c = 98 THEN 8
      ELSE IF c = 116 THEN 9
      ELSE IF c = 110 THEN 10
      ELSE IF c = 102 THEN 12
      ELSE IF c = 114 THEN 13
      ELSE IF c = 117 THEN RadixValue(SubSeq(s, i + 2, i + 5), 16)
      ELSE c

\* the code units that s denotes from position i on
RECURSIVE UnescapedFrom(_, _)
UnescapedFrom(s, i) ==
  IF i > Len(s) THEN <<>>
  ELSE IF s[i] # 92 THEN <<s[i]>> \o UnescapedFrom(s, i + 1)
  ELSE <<Unescaped(s, i)>>
         \o UnescapedFrom(s, i + (IF s[i + 1] = 117 THEN 6 ELSE 2))

\* the string a JSON string literal denotes
Unquote(text) ==
  LET s == SubSeq(text, 2, Len(text) - 1)
  IN  IF \A i \in 1..Len(s) : s[i] # 92 THEN s ELSE UnescapedFrom(s, 1)

\* The texts of the numbers the specifications store most are worked out
\* once: the integers of MemoIntegers with the fractions of the ids that
\* the services generate.  NumberTexts[n + 1][b] is the text of the double
\* of floor n and fraction b, TextNumbers maps each of these texts to the
\* number it denotes.
MemoIntegers == 0..200
MemoFractions == {Dyadic(r, RandomBits).b : r \in 0..(2^RandomBits - 1)}

NumberTexts ==
  <<>> \o [i \in 1..Cardinality(MemoIntegers) |->
             <<>> @@ [b \in MemoFractions |-> NumberToString(Double(i - 1, b))]]

TextNumbers ==
  <<>> @@ [t \in {NumberTexts[n + 1][b] : n \in MemoIntegers, b \in MemoFractions}
             |-> ScanSigned(t).val]

\* the JSON text of a tagged value: a number is written as Number::toString
\* writes it, a text between quotes, NaN and the infinities as null
StringifyValue(v) ==
  IF v.k = "num"
  THEN IF v.n \in MemoIntegers /\ v.b \in MemoFractions
       THEN NumberTexts[v.n + 1][v.b]
       ELSE NumberToString(v)
  ELSE IF v.k = "str" THEN Quote(v.s)
  ELSE NullText

\* the value a JSON text denotes: a string literal, null, or a number, read
\* as the double nearest to its decimal
ParseWith(numbers, text) ==
  IF text \in DOMAIN numbers THEN numbers[text]
  ELSE IF text[1] = 34 THEN Str(Unquote(text))
  ELSE IF text = NullText THEN JSNull
  ELSE IF \A i \in 1..Len(text) : IsDigit(text[i]) THEN Num(DigitsValue(text))
  ELSE ScanSigned(text).val

ParseValue(text) == ParseWith(TextNumbers, text)

\* the JSON text of a flag, and the flag a JSON text denotes
StringifyFlag(v) == IF v THEN TrueText ELSE FalseText
ParseFlag(text) == text = TrueText

\* obj with Op applied to its property f, when it has one
Mapped(obj, f, Op(_)) == IF Has(obj, f) THEN [obj EXCEPT ![f] = Op(@)] ELSE obj

\* obj with OfValue applied to its id and its amount, and OfFlag to its flags
MappedAll(obj, OfValue(_), OfFlag(_)) ==
  Mapped(Mapped(Mapped(Mapped(obj, "id", OfValue), "amount", OfValue),
                "completed", OfFlag),
         "done", OfFlag)

\* properties holding undefined are left out; a date, a named string and a
\* timestamp stand for their quoted texts
StringifyObject(obj) ==
  LET kept == IF \E f \in DOMAIN obj : IsUndefinedProp(obj, f)
              THEN [f \in {g \in DOMAIN obj : ~IsUndefinedProp(obj, g)} |-> obj[f]]
              ELSE obj
  IN  MappedAll(kept, StringifyValue, StringifyFlag)

ParseObject(text) == MappedAll(text, ParseValue, ParseFlag)

JSONstringify(arr) ==
  [kind |-> "array",
   items |-> <<>> \o [i \in 1..Len(arr) |-> StringifyObject(arr[i])]]

JSONparse(text) ==
  <<>> \o [i \in 1..Len(text.items) |-> ParseObject(text.items[i])]

AbsentItem == [kind |-> "absent", items |-> <<>>]
CorruptItem == [kind |-> "corrupt", items |-> <<>>]

\* JSON.parse throws a SyntaxError on this text
ParseThrows(text) == text.kind = "corrupt"

(***************************************************************************)
(* todoService.js                                                          *)
(***************************************************************************)
\* the default category of a todo (the source's CJK literal for "other")
DefaultCategory == "other"

TODOS_STORAGE_KEY == "todos"
EXPENSES_STORAGE_KEY == "expenses"

\* Date.now() + Math.random() as a double.  The doubles next to a timestamp
\* lie on a grid (of 1/4096 ms for the timestamps of these years), and the
\* sum is the point of the grid nearest to it: the model's grid has
\* 2^RandomBits points to the millisecond, r counts the steps of the sum
\* above t, and r = 2^RandomBits is a Math.random() so near to 1 that the
\* sum is rounded up to t + 1
generateId(t, r) == JSAdd(Num(t), Dyadic(r, RandomBits))

\* the random parts the calls are made with: a Math.random() of 0, the
\* smallest one that moves the sum off t, and one that rounds it up to t + 1
RandomParts == {0, 1, 2^RandomBits}

loadTodos(store) ==
  LET todosData == store[TODOS_STORAGE_KEY]
  IN  IF todosData.kind = "absent" THEN <<>>
      ELSE IF ParseThrows(todosData) THEN <<>>
      ELSE JSONparse(todosData)

\* a mutant of saveTodos: an empty array is not written
saveTodosSkipsEmpty(store, todos, setItemOk) ==
  IF setItemOk /\ todos # <<>>
  THEN [store EXCEPT ![TODOS_STORAGE_KEY] = JSONstringify(todos)]
  ELSE store

\* localStorage after saveTodos(todos); setItemOk is whether setItem returned
saveTodos(store, todos, setItemOk) ==
  IF setItemOk THEN [store EXCEPT ![TODOS_STORAGE_KEY] = JSONstringify(todos)]
  ELSE store

getAllTodos(store) == loadTodos(store)

newTodo(todoData, t, r, t2) ==
  Spread([id |-> generateId(t, r),
          text |-> GetStr(todoData, "text"),
          completed |-> FALSE,
          date |-> GetDate(todoData),
          priority |-> OrDefault(GetStr(todoData, "priority"), "medium"),
          category |-> OrDefault(GetStr(todoData, "category"), DefaultCategory),
          createdAt |-> t2],
         todoData)

\* x.id, undefined for an object without an id
IdOf(x) == IF Has(x, "id") THEN x.id ELSE JSUndef

\* a mutant of findIndex: a failed search lands on the first record
findIndexOrFirst(arr, id) ==
  IF \E i \in 1..Len(arr) : StrictEquals(IdOf(arr[i]), id)
  THEN CHOOSE i \in 1..Len(arr) :
         /\ StrictEquals(IdOf(arr[i]), id)
         /\ \A j \in 1..(i - 1) : ~StrictEquals(IdOf(arr[j]), id)
  ELSE IF arr = <<>> THEN 0 ELSE 1

\* todos.findIndex(todo => todo.id === id), 0 for -1
findIndex(arr, id) ==
  IF \E i \in 1..Len(arr) : StrictEquals(IdOf(arr[i]), id)
  THEN CHOOSE i \in 1..Len(arr) :
         /\ StrictEquals(IdOf(arr[i]), id)
         /\ \A j \in 1..(i - 1) : ~StrictEquals(IdOf(arr[j]), id)
  ELSE 0

\* a mutant of filterOutId: the test is inverted (x.id === id)
RECURSIVE filterKeepId(_, _)
filterKeepId(arr, id) ==
  IF arr = <<>> THEN <<>>
  ELSE IF StrictEquals(IdOf(Head(arr)), id)
       THEN <<Head(arr)>> \o filterKeepId(Tail(arr), id)
  ELSE filterKeepId(Tail(arr), id)

\* arr.filter(x => x.id !== id)
RECURSIVE filterOutId(_, _)
filterOutId(arr, id) ==
  IF arr = <<>> THEN <<>>
  ELSE IF ~StrictEquals(IdOf(Head(arr)), id)
       THEN <<Head(arr)>> \o filterOutId(Tail(arr), id)
  ELSE filterOutId(Tail(arr), id)

\* a mutant of addTodo: the new record is returned whatever saveTodos returns
addTodoReturnsRecord(store, todoData, t, r, t2, setItemOk) ==
  LET todos == loadTodos(store)
      rec == newTodo(todoData, t, r, t2)
  IN  [store |-> saveTodos(store, Append(todos, rec), setItemOk),
       res |-> <<rec>>,
       flag |-> setItemOk,
       wrote |-> TRUE]

\* todos.push(newTodo); saveTodos(todos); return success ? newTodo : null
\* (a returned value is a sequence: <<>> for null, <<record>> for a record)
addTodo(store, todoData, t, r, t2, setItemOk) ==
  LET todos == loadTodos(store)
      rec == newTodo(todoData, t, r, t2)
  IN  [store |-> saveTodos(store, Append(todos, rec), setItemOk),
       res |-> IF setItemOk THEN <<rec>> ELSE <<>>,
       flag |-> setItemOk,
       wrote |-> TRUE]

\* a mutant of updateTodo: the spread is reversed, the old fields win
updateTodoKeepsOld(store, id, updateData, setItemOk) ==
  LET todos == loadTodos(store)
      index == findIndex(todos, id)
  IN  IF index = 0
      THEN [store |-> store, res |-> <<>>, flag |-> FALSE, wrote |-> FALSE]
      ELSE LET merged == [todos EXCEPT ![index] = Spread(updateData, todos[index])]
           IN  [store |-> saveTodos(store, merged, setItemOk),
                res |-> IF setItemOk THEN <<merged[index]>> ELSE <<>>,
                flag |-> setItemOk,
                wrote |-> TRUE]

updateTodo(store, id, updateData, setItemOk) ==
  Bind(loadTodos(store), LAMBDA todos :
    LET index == findIndex(todos, id)
    IN  IF index = 0
        THEN [store |-> store, res |-> <<>>, flag |-> FALSE, wrote |-> FALSE]
        ELSE LET merged == [todos EXCEPT ![index] = Spread(todos[index], updateData)]
             IN  [store |-> saveTodos(store, merged, setItemOk),
                  res |-> IF setItemOk THEN <<merged[index]>> ELSE <<>>,
                  flag |-> setItemOk,
                  wrote |-> TRUE])

\* a mutant of toggleTodo: the flag is set, not flipped
toggleTodoSetsDone(store, id, setItemOk) ==
  LET todos == loadTodos(store)
      index == findIndex(todos, id)
  IN  IF index = 0
      THEN [store |-> store, res |-> <<>>, flag |-> FALSE, wrote |-> FALSE]
      ELSE LET flipped == [todos EXCEPT ![index] = Spread(@, [completed |-> TRUE])]
           IN  [store |-> saveTodos(store, flipped, setItemOk),
                res |-> IF setItemOk THEN <<flipped[index]>> ELSE <<>>,
                flag |-> setItemOk,
                wrote |-> TRUE]

\* todos[index].completed = !todos[index].completed: a record that has no
\* completed property reads undefined, and gets the property, set to true
toggleTodo(store, id, setItemOk) ==
  Bind(loadTodos(store), LAMBDA todos :
    LET index == findIndex(todos, id)
    IN  IF index = 0
        THEN [store |-> store, res |-> <<>>, flag |-> FALSE, wrote |-> FALSE]
        ELSE LET flipped ==
                   [todos EXCEPT
                      ![index] = Spread(@, [completed |-> ~Flag(@, "completed")])]
             IN  [store |-> saveTodos(store, flipped, setItemOk),
                  res |-> IF setItemOk THEN <<flipped[index]>> ELSE <<>>,
                  flag |-> setItemOk,
                  wrote |-> TRUE])

deleteTodo(store, id, setItemOk) ==
  Bind(loadTodos(store), LAMBDA todos :
    LET filteredTodos == filterOutId(todos, id)
    IN  IF Len(filteredTodos) = Len(todos)
        THEN [store |-> store, res |-> <<>>, flag |-> FALSE, wrote |-> FALSE]
        ELSE [store |-> saveTodos(store, filteredTodos, setItemOk),
              res |-> <<>>,
              flag |-> setItemOk,
              wrote |-> TRUE])

clearAllTodos(store, setItemOk) ==
  [store |-> saveTodos(store, <<>>, setItemOk),
   res |-> <<>>,
   flag |-> setItemOk,
   wrote |-> TRUE]

\* the text of the date y-m-d as the pages format it ('YYYY-MM-DD')
DateStr(y, m, d) ==
  ToStringNat(y) \o <<Dash>> \o padStart2(ToStringNat(m)) \o <<Dash>>
    \o padStart2(ToStringNat(d))

(***************************************************************************)
(* expenseService.js                                                       *)
(***************************************************************************)
GetAmount(obj) == IF Has(obj, "amount") THEN obj.amount ELSE JSUndef

loadExpenses(store) ==
  LET expensesData == store[EXPENSES_STORAGE_KEY]
  IN  IF expensesData.kind = "absent" THEN <<>>
      ELSE IF ParseThrows(expensesData) THEN <<>>
      ELSE JSONparse(expensesData)

saveExpenses(store, expenses, setItemOk) ==
  IF setItemOk THEN [store EXCEPT ![EXPENSES_STORAGE_KEY] = JSONstringify(expenses)]
  ELSE store

getAllExpenses(store) == loadExpenses(store)

newExpense(expenseData, t, r, t2) ==
  Spread([id |-> generateId(t, r),
          amount |-> parseFloat(GetAmount(expenseData)),
          description |-> GetStr(expenseData, "description"),
          category |-> GetStr(expenseData, "category"),
          type |-> GetStr(expenseData, "type"),
          date |-> GetDate(expenseData),
          createdAt |-> t2],
         expenseData)

\* a mutant of addExpense: unshift in place of push
addExpenseUnshift(store, expenseData, t, r, t2, setItemOk) ==
  LET expenses == loadExpenses(store)
      rec == newExpense(expenseData, t, r, t2)
  IN  [store |-> saveExpenses(store, <<rec>> \o expenses, setItemOk),
       res |-> IF setItemOk THEN <<rec>> ELSE <<>>,
       flag |-> setItemOk,
       wrote |-> TRUE]

addExpense(store, expenseData, t, r, t2, setItemOk) ==
  LET expenses == loadExpenses(store)
      rec == newExpense(expenseData, t, r, t2)
  IN  [store |-> saveExpenses(store, Append(expenses, rec), setItemOk),
       res |-> IF setItemOk THEN <<rec>> ELSE <<>>,
       flag |-> setItemOk,
       wrote |-> TRUE]

updateExpense(store, id, updateData, setItemOk) ==
  Bind(loadExpenses(store), LAMBDA expenses :
    LET index == findIndex(expenses, id)
    IN  IF index = 0
        THEN [store |-> store, res |-> <<>>, flag |-> FALSE, wrote |-> FALSE]
        ELSE LET merged == [expenses EXCEPT ![index] = Spread(expenses[index], updateData)]
             IN  [store |-> saveExpenses(store, merged, setItemOk),
                  res |-> IF setItemOk THEN <<merged[index]>> ELSE <<>>,
                  flag |-> setItemOk,
                  wrote |-> TRUE])

\* a mutant of deleteExpense: true is returned whatever saveExpenses returns
deleteExpenseReturnsTrue(store, id, setItemOk) ==
  LET expenses == loadExpenses(store)
      filteredExpenses == filterOutId(expenses, id)
  IN  IF Len(filteredExpenses) = Len(expenses)
      THEN [store |-> store, res |-> <<>>, flag |-> FALSE, wrote |-> FALSE]
      ELSE [store |-> saveExpenses(store, filteredExpenses, setItemOk),
            res |-> <<>>,
            flag |-> TRUE,
            wrote |-> TRUE]

deleteExpense(store, id, setItemOk) ==
  Bind(loadExpenses(store), LAMBDA expenses :
    LET filteredExpenses == filterOutId(expenses, id)
    IN  IF Len(filteredExpenses) = Len(expenses)
        THEN [store |-> store, res |-> <<>>, flag |-> FALSE, wrote |-> FALSE]
        ELSE [store |-> saveExpenses(store, filteredExpenses, setItemOk),
              res |-> <<>>,
              flag |-> setItemOk,
              wrote |-> TRUE])

clearAllExpenses(store, setItemOk) ==
  [store |-> saveExpenses(store, <<>>, setItemOk),
   res |-> <<>>,
   flag |-> setItemOk,
   wrote |-> TRUE]

(***************************************************************************)
(* The callers' inputs.                                                    *)
(***************************************************************************)
\* record data handed to addTodo: the form's data, and the same data
\* carrying an id of its own
TodoInputs ==
  { [text |-> "run", date |-> DateStr(2025, 6, 2), priority |-> "high"],
    [text |-> "run", date |-> DateStr(2025, 6, 2), priority |-> "high",
     id |-> Num(2)] }

\* patches handed to updateTodo
TodoPatches ==
  { [completed |-> TRUE],
    [id |-> Num(1)] }

\* record data handed to addExpense: the form's data, and the same data
\* carrying an id of its own
ExpenseInputs ==
  { [description |-> "lunch", amount |-> Num(150), type |-> "expense",
     date |-> DateStr(2025, 6, 1), category |-> "food"],
    [description |-> "lunch", amount |-> Num(150), type |-> "expense",
     date |-> DateStr(2025, 6, 1), category |-> "food", id |-> Num(2)] }

\* patches handed to updateExpense
ExpensePatches ==
  { [type |-> "income"],
    [id |-> Num(1)] }

\* arr.map(x => x.id) as a set
IdsOf(arr) == {IdOf(arr[i]) : i \in 1..Len(arr)}

\* an id no record has: no id is generated or supplied below 1
MissingId == Num(0)

\* the ids the callers pass: the ids of the records on screen, and one that
\* no record has
IdArgs(arr) == IdsOf(arr) \cup {MissingId}

Keys ==
  {TODOS_STORAGE_KEY, EXPENSES_STORAGE_KEY, "finance_todos", "finance_expenses",
   "finance_budgets", "finance_templates", "finance_settings"}

(***************************************************************************)
(* The state machine: one action per exported operation.  `last` records   *)
(* the most recent call: the operation, its id argument, the sequence      *)
(* loaded before it ran, the value it returned (res for a record or null,  *)
(* flag for a boolean), whether it called setItem and whether setItem      *)
(* returned; arg holds the patch of an update (<<>> for the other calls).   *)
(* For a toggleTodo(id) that directly follows a toggleTodo of   *)
(* the same stored id, it also keeps the completion flag before the first  *)
(* of the two calls and whether the first call's setItem returned.         *)
(* The two services share no key, so a behaviour follows the calls of one  *)
(* of them: the calls of a service are taken while the key of the other    *)
(* has not been written.  The calls are made within one millisecond, so    *)
(* that the ids differ by the random part alone; the clock moves on in     *)
(* SpecAdd and SpecTabs.                                                   *)
(***************************************************************************)
\* the completion flag of the record toggleTodo(id) acts on
CompletedOf(arr, id) == arr[findIndex(arr, id)].completed

SecondToggle(op, id) ==
  /\ op = "toggleTodo"
  /\ last.op = "toggleTodo"
  /\ last.id = id
  /\ id \in {last.pre[i].id : i \in 1..Len(last.pre)}

Call(op, id, pre, out, setItemOk) ==
  [op |-> op, id |-> id, pre |-> pre, res |-> out.res, flag |-> out.flag,
   wrote |-> out.wrote, ok |-> setItemOk, arg |-> <<>>,
   twice |-> SecondToggle(op, id),
   firstOk |-> IF SecondToggle(op, id) THEN last.ok ELSE TRUE,
   orig |-> IF SecondToggle(op, id) THEN CompletedOf(last.pre, id) ELSE FALSE]

NoCall ==
  [op |-> "none", id |-> Num(0), pre |-> <<>>, res |-> <<>>, flag |-> FALSE,
   wrote |-> FALSE, ok |-> TRUE, arg |-> <<>>, twice |-> FALSE, firstOk |-> TRUE,
   orig |-> FALSE]

Stored(store) == Len(loadTodos(store)) + Len(loadExpenses(store))

\* no call has written the key
Untouched(store, key) == store[key].kind = "absent"

Init ==
  /\ ls = [k \in Keys |-> AbsentItem]
  /\ now = 1
  /\ last = NoCall


AddTodo ==
  LET pre == loadTodos(ls)
  IN  /\ Untouched(ls, EXPENSES_STORAGE_KEY)
      /\ Stored(ls) < MaxRecords
      /\ \E todoData \in TodoInputs, r \in RandomParts, setItemOk \in BOOLEAN :
           LET out == addTodo(ls, todoData, now, r, now, setItemOk)
           IN  /\ ls' = out.store
               /\ UNCHANGED now
               /\ last' = Call("addTodo", MissingId, pre, out, setItemOk)

UpdateTodo ==
  LET pre == loadTodos(ls)
  IN  /\ Untouched(ls, EXPENSES_STORAGE_KEY)
      /\ \E id \in IdArgs(pre), updateData \in TodoPatches, setItemOk \in BOOLEAN :
           LET out == updateTodo(ls, id, updateData, setItemOk)
           IN  /\ out.wrote \/ setItemOk
               /\ ls' = out.store
               /\ last' = [Call("updateTodo", id, pre, out, setItemOk)
                             EXCEPT !.arg = <<updateData>>]
               /\ UNCHANGED now

ToggleTodo ==
  LET pre == loadTodos(ls)
  IN  /\ Untouched(ls, EXPENSES_STORAGE_KEY)
      /\ \E id \in IdArgs(pre), setItemOk \in BOOLEAN :
           LET out == toggleTodo(ls, id, setItemOk)
           IN  /\ out.wrote \/ setItemOk
               /\ ls' = out.store
               /\ last' = Call("toggleTodo", id, pre, out, setItemOk)
               /\ UNCHANGED now

DeleteTodo ==
  LET pre == loadTodos(ls)
  IN  /\ Untouched(ls, EXPENSES_STORAGE_KEY)
      /\ \E id \in IdArgs(pre), setItemOk \in BOOLEAN :
           LET out == deleteTodo(ls, id, setItemOk)
           IN  /\ out.wrote \/ setItemOk
               /\ ls' = out.store
               /\ last' = Call("deleteTodo", id, pre, out, setItemOk)
               /\ UNCHANGED now

ClearAllTodos ==
  LET pre == loadTodos(ls)
  IN  /\ Untouched(ls, EXPENSES_STORAGE_KEY)
      /\ \E setItemOk \in BOOLEAN :
           LET out == clearAllTodos(ls, setItemOk)
           IN  /\ ls' = out.store
               /\ last' = Call("clearAllTodos", MissingId, pre, out, setItemOk)
               /\ UNCHANGED now

AddExpense ==
  LET pre == loadExpenses(ls)
  IN  /\ Untouched(ls, TODOS_STORAGE_KEY)
      /\ Stored(ls) < MaxRecords
      /\ \E expenseData \in ExpenseInputs, r \in RandomParts, setItemOk \in BOOLEAN :
           LET out == addExpense(ls, expenseData, now, r, now, setItemOk)
           IN  /\ ls' = out.store
               /\ UNCHANGED now
               /\ last' = Call("addExpense", MissingId, pre, out, setItemOk)

UpdateExpense ==
  LET pre == loadExpenses(ls)
  IN  /\ Untouched(ls, TODOS_STORAGE_KEY)
      /\ \E id \in IdArgs(pre), updateData \in ExpensePatches, setItemOk \in BOOLEAN :
           LET out == updateExpense(ls, id, updateData, setItemOk)
           IN  /\ out.wrote \/ setItemOk
               /\ ls' = out.store
               /\ last' = [Call("updateExpense", id, pre, out, setItemOk)
                             EXCEPT !.arg = <<updateData>>]
               /\ UNCHANGED now

DeleteExpense ==
  LET pre == loadExpenses(ls)
  IN  /\ Untouched(ls, TODOS_STORAGE_KEY)
      /\ \E id \in IdArgs(pre), setItemOk \in BOOLEAN :
           LET out == deleteExpense(ls, id, setItemOk)
           IN  /\ out.wrote \/ setItemOk
               /\ ls' = out.store
               /\ last' = Call("deleteExpense", id, pre, out, setItemOk)
               /\ UNCHANGED now

ClearAllExpenses ==
  LET pre == loadExpenses(ls)
  IN  /\ Untouched(ls, TODOS_STORAGE_KEY)
      /\ \E setItemOk \in BOOLEAN :
           LET out == clearAllExpenses(ls, setItemOk)
           IN  /\ ls' = out.store
               /\ last' = Call("clearAllExpenses", MissingId, pre, out, setItemOk)
               /\ UNCHANGED now

Next ==
  \/ AddTodo
  \/ UpdateTodo
  \/ ToggleTodo
  \/ DeleteTodo
  \/ ClearAllTodos
  \/ AddExpense
  \/ UpdateExpense
  \/ DeleteExpense
  \/ ClearAllExpenses

Spec == Init /\ [][Next]_vars

(***************************************************************************)
(* Creation of records: SpecAdd starts from the empty store and calls      *)
(* addTodo and addExpense with the data a caller of the service can hand   *)
(* over: the forms' data, an amount as the text of the input field, and    *)
(* data carrying an id and a createdAt of its own (a record read earlier   *)
(* and handed back).  `last` keeps the data, the clock readings t (of the   *)
(* id) and t2 (of createdAt, which can fall in a later millisecond) and    *)
(* the random part r of the call.  As in Spec, a behaviour follows the     *)
(* calls of one of the two services.                                       *)
(***************************************************************************)
\* an id and a creation time the service does not generate within the bounds
CallerId == Num(7)
CallerCreatedAt == 9

TodoData ==
  { [text |-> "run", date |-> DateStr(2025, 6, 2), priority |-> "high"],
    [text |-> "run", date |-> DateStr(2025, 6, 2), priority |-> "high",
     id |-> CallerId, createdAt |-> CallerCreatedAt] }

ExpenseData ==
  { [description |-> "lunch", amount |-> Num(150), type |-> "expense",
     date |-> DateStr(2025, 6, 1), category |-> "food"],
    [description |-> "lunch", amount |-> Str(ToStringNat(80)), type |-> "expense",
     date |-> DateStr(2025, 6, 1), category |-> "food"],
    [description |-> "lunch", amount |-> Num(150), type |-> "expense",
     date |-> DateStr(2025, 6, 1), category |-> "food",
     id |-> CallerId, createdAt |-> CallerCreatedAt] }

AddCall(op, data, t, r, t2, pre, out, setItemOk) ==
  [op |-> op, arg |-> <<data>>, t |-> t, r |-> r, t2 |-> t2, pre |-> pre,
   res |-> out.res, ok |-> setItemOk]

InitAdd ==
  /\ ls = [k \in Keys |-> AbsentItem]
  /\ now = 1
  /\ last = [op |-> "none", arg |-> <<>>, t |-> 0, r |-> 0, t2 |-> 0, pre |-> <<>>,
             res |-> <<>>, ok |-> TRUE]

AddTodoData ==
  /\ Untouched(ls, EXPENSES_STORAGE_KEY)
  /\ Stored(ls) < MaxRecords
  /\ now <= MaxNow
  /\ \E todoData \in TodoData, t \in {now}, r \in RandomParts,
        setItemOk \in BOOLEAN :
       \E t2 \in t..(MaxNow + 1) :
       LET out == addTodo(ls, todoData, t, r, t2, setItemOk)
       IN  /\ ls' = out.store
           /\ now' = t2
           /\ last' = AddCall("addTodo", todoData, t, r, t2, loadTodos(ls), out,
                              setItemOk)

AddExpenseData ==
  /\ Untouched(ls, TODOS_STORAGE_KEY)
  /\ Stored(ls) < MaxRecords
  /\ now <= MaxNow
  /\ \E expenseData \in ExpenseData, t \in {now}, r \in RandomParts,
        setItemOk \in BOOLEAN :
       \E t2 \in t..(MaxNow + 1) :
       LET out == addExpense(ls, expenseData, t, r, t2, setItemOk)
       IN  /\ ls' = out.store
           /\ now' = t2
           /\ last' = AddCall("addExpense", expenseData, t, r, t2,
                              loadExpenses(ls), out, setItemOk)

NextAdd ==
  \/ AddTodoData
  \/ AddExpenseData

SpecAdd == InitAdd /\ [][NextAdd]_vars

(***************************************************************************)
(* Two tabs of the origin on one localStorage: SpecTabs.  A service call   *)
(* reads its key (loadTodos / loadExpenses, the first statement of every   *)
(* mutating function), works on the array it parsed, and writes the key    *)
(* (saveTodos / saveExpenses, its last statement); getItem and setItem are *)
(* each atomic, and the other tab can run between the two.  Each tab makes *)
(* one call.  `last` keeps, per tab, the call, the text it read and        *)
(* whether its setItem returned, and, per key, the tab whose setItem was   *)
(* the latest to return.                                                   *)
(***************************************************************************)
Tabs == {1, 2}

\* the records stored before the tabs are opened
MaxShared == 1

SharedTodos ==
  [i \in 1..MaxShared |->
     newTodo([text |-> "run", date |-> DateStr(2025, 6, 2), priority |-> "high"],
             i, 0, i)]

SharedExpenses ==
  [i \in 1..MaxShared |->
     newExpense([description |-> "lunch", amount |-> Num(150), type |-> "expense",
                 date |-> DateStr(2025, 6, 1), category |-> "food"], i, 0, i)]

KeyOf(op) == IF op \in {"addTodo", "toggleTodo", "deleteTodo"}
             THEN TODOS_STORAGE_KEY ELSE EXPENSES_STORAGE_KEY

IdleTab ==
  [pc |-> "idle", op |-> "none", id |-> MissingId, data |-> <<>>, t |-> 0, r |-> 0,
   t2 |-> 0, snap |-> AbsentItem, saved |-> FALSE]

\* the tab has run the load statement of the function
Loaded(store, op, id, data, t, r, t2) ==
  [pc |-> "loaded", op |-> op, id |-> id, data |-> data, t |-> t, r |-> r,
   t2 |-> t2, snap |-> store[KeyOf(op)], saved |-> FALSE]

\* the store as the call saw it: its key holds the text the call read
SnapStore(store, c) == [store EXCEPT ![KeyOf(c.op)] = c.snap]

\* the function of the call, on a store
RunOp(store, c, setItemOk) ==
  CASE c.op = "addTodo" -> addTodo(store, c.data[1], c.t, c.r, c.t2, setItemOk)
    [] c.op = "toggleTodo" -> toggleTodo(store, c.id, setItemOk)
    [] c.op = "deleteTodo" -> deleteTodo(store, c.id, setItemOk)
    [] c.op = "addExpense" -> addExpense(store, c.data[1], c.t, c.r, c.t2, setItemOk)
    [] c.op = "updateExpense" -> updateExpense(store, c.id, c.data[1], setItemOk)
    [] c.op = "deleteExpense" -> deleteExpense(store, c.id, setItemOk)

\* a mutant of TabSave: the call reads the key again when it writes
TabSaveRereads(store, c, setItemOk) == RunOp(store, c, setItemOk).store

\* localStorage after the rest of the call: the array parsed from the text
\* the call read is changed and written over the key (a setItem that throws
\* leaves the key as it is)
TabSave(store, c, setItemOk) ==
  LET out == RunOp(SnapStore(store, c), c, setItemOk)
  IN  IF setItemOk THEN [store EXCEPT ![KeyOf(c.op)] = out.store[KeyOf(c.op)]]
      ELSE store

\* whether the call reaches setItem
TabWrites(store, c) == RunOp(SnapStore(store, c), c, TRUE).wrote

InitTabs ==
  /\ \E n \in 0..MaxShared, m \in 0..MaxShared :
       ls = [[k \in Keys |-> AbsentItem] EXCEPT
               ![TODOS_STORAGE_KEY] = JSONstringify(SubSeq(SharedTodos, 1, n)),
               ![EXPENSES_STORAGE_KEY] = JSONstringify(SubSeq(SharedExpenses, 1, m))]
  /\ now = MaxShared + 1
  /\ last = [calls |-> [tab \in Tabs |-> IdleTab],
             writer |-> [k \in {TODOS_STORAGE_KEY, EXPENSES_STORAGE_KEY} |-> 0]]

\* the tab starts a call: the load statement runs
Begin(tab, op, id, data, t, r, t2) ==
  /\ last.calls[tab].pc = "idle"
  /\ last' = [last EXCEPT !.calls[tab] = Loaded(ls, op, id, data, t, r, t2)]
  /\ now' = IF t = 0 THEN now ELSE t2
  /\ UNCHANGED ls

BeginAddTodo ==
  \E tab \in Tabs, t \in now..(MaxShared + MaxNow), r \in RandomParts :
   \E t2 \in t..(MaxShared + MaxNow) :
    Begin(tab, "addTodo", MissingId,
          <<[text |-> "walk", date |-> DateStr(2025, 6, 2), priority |-> "low"]>>,
          t, r, t2)

BeginToggleTodo ==
  \E tab \in Tabs, id \in IdArgs(loadTodos(ls)) :
    Begin(tab, "toggleTodo", id, <<>>, 0, 0, 0)

BeginDeleteTodo ==
  \E tab \in Tabs, id \in IdArgs(loadTodos(ls)) :
    Begin(tab, "deleteTodo", id, <<>>, 0, 0, 0)

BeginAddExpense ==
  \E tab \in Tabs, t \in now..(MaxShared + MaxNow), r \in RandomParts :
   \E t2 \in t..(MaxShared + MaxNow) :
    Begin(tab, "addExpense", MissingId,
          <<[description |-> "bus", amount |-> Num(30), type |-> "expense",
             date |-> DateStr(2025, 6, 2), category |-> "travel"]>>,
          t, r, t2)

BeginUpdateExpense ==
  \E tab \in Tabs, id \in IdArgs(loadExpenses(ls)) :
    Begin(tab, "updateExpense", id, <<[category |-> "work"]>>, 0, 0, 0)

BeginDeleteExpense ==
  \E tab \in Tabs, id \in IdArgs(loadExpenses(ls)) :
    Begin(tab, "deleteExpense", id, <<>>, 0, 0, 0)

\* the tab's call runs to its end: the save statement, if the call reaches it
Finish ==
  \E tab \in Tabs, setItemOk \in BOOLEAN :
    LET c == last.calls[tab]
    IN  /\ c.pc = "loaded"
        /\ TabWrites(ls, c) \/ setItemOk
        /\ ls' = IF TabWrites(ls, c) THEN TabSave(ls, c, setItemOk) ELSE ls
        /\ last' = [last EXCEPT
                      !.calls[tab].pc = "done",
                      !.calls[tab].saved = TabWrites(ls, c) /\ setItemOk,
                      !.writer[KeyOf(c.op)] =
                         IF TabWrites(ls, c) /\ setItemOk THEN tab ELSE @]
        /\ UNCHANGED now

NextTabs ==
  \/ BeginAddTodo
  \/ BeginToggleTodo
  \/ BeginDeleteTodo
  \/ BeginAddExpense
  \/ BeginUpdateExpense
  \/ BeginDeleteExpense
  \/ Finish

SpecTabs == InitTabs /\ [][NextTabs]_vars

(***************************************************************************)
(* expenseService.js: statistics.                                          *)
(***************************************************************************)
\* null (and '', which is as falsy) for an omitted date bound
NullDate == <<>>

\* arr.filter(e => e.type === type)
RECURSIVE filterByType(_, _)
filterByType(arr, type) ==
  IF arr = <<>> THEN <<>>
  ELSE IF GetStr(Head(arr), "type") = type
       THEN <<Head(arr)>> \o filterByType(Tail(arr), type)
  ELSE filterByType(Tail(arr), type)

\* a < b on two dates: the comparison of their code units, false when one
\* of them is undefined
DateLess(a, b) == a # UndefinedDate /\ b # UndefinedDate /\ StrLess(a, b)

\* a >= b on two dates, false when one of them is undefined
DateAtLeast(a, b) == a # UndefinedDate /\ b # UndefinedDate /\ ~StrLess(a, b)

\* the filter of getExpenseStats: false on date < startDate, false on
\* date > endDate, each test only for a truthy bound
RECURSIVE filterByRange(_, _, _)
filterByRange(arr, startDate, endDate) ==
  IF arr = <<>> THEN <<>>
  ELSE LET expenseDate == GetDate(Head(arr))
           rest == filterByRange(Tail(arr), startDate, endDate)
       IN  IF startDate # NullDate /\ DateLess(expenseDate, startDate) THEN rest
           ELSE IF endDate # NullDate /\ DateLess(endDate, expenseDate) THEN rest
           ELSE <<Head(arr)>> \o rest

\* arr.reduce((sum, item) => sum + item.amount, sum0)
RECURSIVE reduceAmount(_, _)
reduceAmount(arr, sum) ==
  IF arr = <<>> THEN sum
  ELSE reduceAmount(Tail(arr), JSAdd(sum, GetAmount(Head(arr))))

getExpenseStats(store, startDate, endDate) ==
  Bind(loadExpenses(store), LAMBDA loaded :
    LET expenses == IF startDate # NullDate \/ endDate # NullDate
                    THEN filterByRange(loaded, startDate, endDate)
                    ELSE loaded
        income == filterByType(expenses, "income")
        expense == filterByType(expenses, "expense")
        totalIncome == reduceAmount(income, Num(0))
        totalExpense == reduceAmount(expense, Num(0))
    IN  [totalIncome |-> totalIncome,
         totalExpense |-> totalExpense,
         balance |-> JSSub(totalIncome, totalExpense),
         incomeCount |-> Len(income),
         expenseCount |-> Len(expense),
         totalCount |-> Len(expenses)])

(***************************************************************************)
(* new Date(year, month, 0).getDate(), by the day arithmetic of the        *)
(* language: MakeDay normalises day 0 of month index `month` to the day    *)
(* before the first of that month, and getDate reads the day of the month  *)
(* back from the day number.                                               *)
(***************************************************************************)
DaysInYear(y) ==
  IF y % 4 # 0 THEN 365
  ELSE IF y % 100 # 0 THEN 366
  ELSE IF y % 400 # 0 THEN 365
  ELSE 366

\* day number of 1 January of year y, counted from 1 January 1970
DayFromYear(y) ==
  365 * (y - 1970) + ((y - 1969) \div 4) - ((y - 1901) \div 100)
    + ((y - 1601) \div 400)

\* days of year y before month index mn (0 = January)
RECURSIVE DaysBeforeMonth(_, _)
DaysBeforeMonth(y, mn) ==
  IF mn = 0 THEN 0
  ELSE DaysBeforeMonth(y, mn - 1)
       + (IF mn - 1 = 1 THEN DaysInYear(y) - 337
          ELSE IF (mn - 1) \in {3, 5, 8, 10} THEN 30
          ELSE 31)

\* the Date constructor reads a year of 0..99 as 1900 + year
FullYear(y) == IF y >= 0 /\ y <= 99 THEN 1900 + y ELSE y

MakeDay(year, month, date) ==
  LET ym == FullYear(year) + (month \div 12)
      mn == month % 12
  IN  DayFromYear(ym) + DaysBeforeMonth(ym, mn) + date - 1

YearFromDay(day) ==
  CHOOSE y \in ((day \div 366) + 1969)..((day \div 365) + 1971) :
    DayFromYear(y) <= day /\ day < DayFromYear(y + 1)

MonthFromDay(day) ==
  LET y == YearFromDay(day)
      dayInYear == day - DayFromYear(y)
  IN  CHOOSE mn \in 0..11 :
        /\ DaysBeforeMonth(y, mn) <= dayInYear
        /\ mn < 11 => dayInYear < DaysBeforeMonth(y, mn + 1)

\* getDate()
DateFromDay(day) ==
  LET y == YearFromDay(day)
  IN  day - DayFromYear(y) - DaysBeforeMonth(y, MonthFromDay(day)) + 1

\* getDay(): 1 January 1970 was a Thursday
WeekDay(day) == (day + 4) % 7

\* a mutant of lastDay: getDay() in place of getDate()
lastDayByGetDay(targetYear, targetMonth) ==
  WeekDay(MakeDay(targetYear, targetMonth, 0))

\* new Date(targetYear, targetMonth, 0).getDate()
lastDay(targetYear, targetMonth) ==
  DateFromDay(MakeDay(targetYear, targetMonth, 0))

\* year and month are 0 when the caller leaves them out (falsy); nowYear and
\* nowMonth are now.getFullYear() and now.getMonth() + 1
getMonthlyStats(store, year, month, nowYear, nowMonth) ==
  LET targetYear == IF year = 0 THEN nowYear ELSE year
      targetMonth == IF month = 0 THEN nowMonth ELSE month
      startDate == ToStringNat(targetYear) \o <<Dash>>
                     \o padStart2(ToStringNat(targetMonth)) \o <<Dash, Digit(0), Digit(1)>>
      endDate == ToStringNat(targetYear) \o <<Dash>>
                   \o padStart2(ToStringNat(targetMonth)) \o <<Dash>>
                   \o padStart2(ToStringNat(lastDay(targetYear, targetMonth)))
  IN  getExpenseStats(store, startDate, endDate)

(***************************************************************************)
(* The statistics over a ledger the program has built: SpecStats starts    *)
(* from the sequences addExpense produces from the callers' data and       *)
(* applies getExpenseStats or getMonthlyStats once (they read the store    *)
(* and change nothing, so a second call sees what the first one saw).      *)
(***************************************************************************)
\* record data handed to addExpense: the three entries of the test data
\* (June 2025), an entry on a leap day, and an entry whose amount is the
\* text of the form field
StatsInputs ==
  << [description |-> "salary", amount |-> Num(50000), type |-> "income",
      date |-> DateStr(2025, 6, 1), category |-> "pay"],
     [description |-> "lunch", amount |-> Num(150), type |-> "expense",
      date |-> DateStr(2025, 6, 1), category |-> "food"],
     [description |-> "bus", amount |-> Num(800), type |-> "expense",
      date |-> DateStr(2025, 6, 2), category |-> "travel"],
     [description |-> "rent", amount |-> Num(20), type |-> "expense",
      date |-> DateStr(2024, 2, 29), category |-> "home"],
     [description |-> "book", amount |-> Str(ToStringNat(80)), type |-> "expense",
      date |-> DateStr(2025, 6, 30), category |-> "fun"] >>

\* the ledger after addExpense(StatsInputs[picks[i]]) for i = 1, 2, ...,
\* one call per millisecond
LedgerOf(picks) ==
  [i \in 1..Len(picks) |-> newExpense(StatsInputs[picks[i]], i, 0, i)]

\* the entries added, in order; an entry with a text amount is the latest
\* one (text sums grow by a few digits with every entry added after it, out
\* of the range of the model's integers)
Picks ==
  {picks \in UNION {[1..n -> 1..Len(StatsInputs)] : n \in 0..MaxLedger} :
     \A i \in 1..(Len(picks) - 1) : StatsInputs[picks[i]].amount.k = "num"}

\* the date bounds the callers pass to getExpenseStats
StatsBounds ==
  {NullDate, DateStr(2025, 6, 1), DateStr(2025, 6, 2), DateStr(2024, 3, 1)}

\* the years and months the callers pass to getMonthlyStats, 0 for omitted
StatsYears == {0, 1900, 2000, 2023, 2024, 2025}
StatsMonths == 0..12

\* the calendar month the call is made in
NowYear == 2025
NowMonth == 6

\* no statistics computed yet
NoStats ==
  [totalIncome |-> Num(0), totalExpense |-> Num(0), balance |-> Num(0),
   incomeCount |-> 0, expenseCount |-> 0, totalCount |-> 0]

StatsCall(op, startDate, endDate, year, month, stats) ==
  [op |-> op, startDate |-> startDate, endDate |-> endDate, year |-> year,
   month |-> month, stats |-> stats]

InitStats ==
  /\ \E picks \in Picks :
       ls = [[k \in Keys |-> AbsentItem] EXCEPT
               ![EXPENSES_STORAGE_KEY] = JSONstringify(LedgerOf(picks))]
  /\ now = MaxLedger + 1
  /\ last = StatsCall("none", NullDate, NullDate, 0, 0, NoStats)

GetExpenseStats ==
  \E startDate \in StatsBounds, endDate \in StatsBounds :
    /\ last.op = "none"
    /\ last' = StatsCall("getExpenseStats", startDate, endDate, 0, 0,
                         getExpenseStats(ls, startDate, endDate))
    /\ UNCHANGED <<ls, now>>

GetMonthlyStats ==
  \E year \in StatsYears, month \in StatsMonths :
    /\ last.op = "none"
    /\ last' = StatsCall("getMonthlyStats", NullDate, NullDate, year, month,
                         getMonthlyStats(ls, year, month, NowYear, NowMonth))
    /\ UNCHANGED <<ls, now>>

NextStats ==
  \/ GetExpenseStats
  \/ GetMonthlyStats

SpecStats == InitStats /\ [][NextStats]_vars

(***************************************************************************)
(* searchTodos and searchExpenses.  A string property of a record is a     *)
(* name; CodeUnits gives the UTF-16 code units of the text it names, on    *)
(* which toLowerCase and includes work.                                    *)
(***************************************************************************)
\* the texts of the model: descriptions and categories of the ledger's test
\* data (CJK, named here by their transliteration), the todo category
\* default, and ASCII texts in both cases
TextTable ==
  [wucan |-> <<21320, 39184>>,
   wancanjuhui |-> <<26202, 39184, 32858, 26371>>,
   jiaotongfei |-> <<20132, 36890, 36027>>,
   can |-> <<39184>>,
   other |-> <<20854, 20182>>,
   Food |-> <<70, 111, 111, 100>>,
   food |-> <<102, 111, 111, 100>>,
   Social |-> <<83, 111, 99, 105, 97, 108>>,
   Travel |-> <<84, 114, 97, 118, 101, 108>>,
   travel |-> <<116, 114, 97, 118, 101, 108>>,
   Taxi |-> <<84, 97, 120, 105>>,
   TAXI |-> <<84, 65, 88, 73>>,
   tea |-> <<116, 101, 97>>,
   constructor |-> <<99, 111, 110, 115, 116, 114, 117, 99, 116, 111, 114>>,
   total |-> <<116, 111, 116, 97, 108>>,
   __proto__ |-> <<95, 95, 112, 114, 111, 116, 111, 95, 95>>,
   empty |-> <<>>]

CodeUnits(name) == TextTable[name]

\* s.toLowerCase(): A..Z to a..z; the other code units of the model's texts
\* have no lower-case form
toLowerCase(s) ==
  [i \in 1..Len(s) |-> IF s[i] >= 65 /\ s[i] <= 90 THEN s[i] + 32 ELSE s[i]]

\* s.includes(part)
includes(s, part) ==
  \E i \in 0..(Len(s) - Len(part)) : SubSeq(s, i + 1, i + Len(part)) = part

\* the filter callback throws a TypeError: .toLowerCase() of undefined, on
\* the first field, or on the category when the first field has no match
CallbackThrows(x, field, lowerKeyword) ==
  \/ GetStr(x, field) = Undefined
  \/ /\ ~includes(toLowerCase(CodeUnits(x[field])), lowerKeyword)
     /\ GetStr(x, "category") = Undefined

\* x.field.toLowerCase().includes(k) || x.category.toLowerCase().includes(k)
CallbackKeeps(x, field, lowerKeyword) ==
  \/ includes(toLowerCase(CodeUnits(x[field])), lowerKeyword)
  \/ includes(toLowerCase(CodeUnits(x.category)), lowerKeyword)

RECURSIVE filterBySearch(_, _, _)
filterBySearch(arr, field, lowerKeyword) ==
  IF arr = <<>> THEN <<>>
  ELSE IF CallbackKeeps(Head(arr), field, lowerKeyword)
       THEN <<Head(arr)>> \o filterBySearch(Tail(arr), field, lowerKeyword)
  ELSE filterBySearch(Tail(arr), field, lowerKeyword)

\* the outcome of a search: the TypeError of the callback is not caught
searchIn(arr, field, keyword) ==
  LET lowerKeyword == toLowerCase(CodeUnits(keyword))
  IN  IF \E i \in 1..Len(arr) : CallbackThrows(arr[i], field, lowerKeyword)
      THEN [raised |-> TRUE, got |-> <<>>]
      ELSE [raised |-> FALSE, got |-> filterBySearch(arr, field, lowerKeyword)]

searchTodos(store, keyword) == searchIn(loadTodos(store), "text", keyword)

searchExpenses(store, keyword) ==
  searchIn(loadExpenses(store), "description", keyword)

(***************************************************************************)
(* Searching a store the program has built: SpecSearch starts from the     *)
(* sequences addTodo and addExpense produce from the callers' data and     *)
(* makes one search (a search changes nothing).                            *)
(***************************************************************************)
MaxSearched == 2

\* data handed to addExpense: the three entries of the claim's example, an
\* entry in ASCII, and an entry without a category (the field is optional
\* in the finance page's ExpenseRecord and addExpense gives it no default)
SearchExpenseData ==
  << [description |-> "wucan", amount |-> Num(120), type |-> "expense",
      date |-> DateStr(2025, 6, 1), category |-> "Food"],
     [description |-> "wancanjuhui", amount |-> Num(450), type |-> "expense",
      date |-> DateStr(2025, 6, 1), category |-> "Social"],
     [description |-> "jiaotongfei", amount |-> Num(50), type |-> "expense",
      date |-> DateStr(2025, 6, 2), category |-> "Travel"],
     [description |-> "Taxi", amount |-> Num(300), type |-> "expense",
      date |-> DateStr(2025, 6, 2), category |-> "Travel"],
     [description |-> "tea", amount |-> Num(30), type |-> "expense",
      date |-> DateStr(2025, 6, 2)] >>

\* data handed to addTodo: one with the default category, one with its own
SearchTodoData ==
  << [text |-> "Taxi", date |-> DateStr(2025, 6, 2), priority |-> "high"],
     [text |-> "wucan", date |-> DateStr(2025, 6, 2), priority |-> "low",
      category |-> "Food"] >>

Keywords == {"can", "food", "TAXI", "travel", "empty"}

SearchCall(op, keyword, out) ==
  [op |-> op, keyword |-> keyword, raised |-> out.raised, got |-> out.got]

InitSearch ==
  /\ \E ep \in UNION {[1..n -> 1..Len(SearchExpenseData)] : n \in 0..MaxSearched},
        tp \in UNION {[1..n -> 1..Len(SearchTodoData)] : n \in 0..MaxSearched} :
       ls = [[k \in Keys |-> AbsentItem] EXCEPT
               ![EXPENSES_STORAGE_KEY] =
                  JSONstringify([i \in 1..Len(ep) |->
                                   newExpense(SearchExpenseData[ep[i]], i, 0, i)]),
               ![TODOS_STORAGE_KEY] =
                  JSONstringify([i \in 1..Len(tp) |->
                                   newTodo(SearchTodoData[tp[i]], i, 0, i)])]
  /\ now = MaxSearched + 1
  /\ last = SearchCall("none", "empty", [raised |-> FALSE, got |-> <<>>])

SearchTodos ==
  \E keyword \in Keywords :
    /\ last.op = "none"
    /\ last' = SearchCall("searchTodos", keyword, searchTodos(ls, keyword))
    /\ UNCHANGED <<ls, now>>

SearchExpenses ==
  \E keyword \in Keywords :
    /\ last.op = "none"
    /\ last' = SearchCall("searchExpenses", keyword, searchExpenses(ls, keyword))
    /\ UNCHANGED <<ls, now>>

NextSearch ==
  \/ SearchTodos
  \/ SearchExpenses

SpecSearch == InitSearch /\ [][NextSearch]_vars

(***************************************************************************)
(* utils/storage.js: storage.get and storage.set.                          *)
(***************************************************************************)
\* what a caller is left with when the call raised instead of returning
Raised == <<[error |-> "SyntaxError"]>>

\* a mutant of storage_get: no catch, the SyntaxError of JSON.parse reaches
\* the caller
storage_getNoCatch(store, key) ==
  LET item == store[key]
  IN  IF item.kind = "absent" THEN <<>>
      ELSE IF ParseThrows(item) THEN Raised
      ELSE JSONparse(item)

\* JSON.parse(localStorage.getItem(key) || '[]'), [] when parse throws
storage_get(store, key) ==
  LET item == store[key]
  IN  IF item.kind = "absent" THEN <<>>
      ELSE IF ParseThrows(item) THEN <<>>
      ELSE JSONparse(item)

\* localStorage after storage.set(key, data); it returns setItemOk
storage_set(store, key, data, setItemOk) ==
  IF setItemOk THEN [store EXCEPT ![key] = JSONstringify(data)] ELSE store

\* Math.max(m, ...items.map(item => item.id || 0)): each argument is
\* converted to a number, and one NaN makes the result NaN
RECURSIVE MaxId(_, _)
MaxId(items, m) ==
  IF items = <<>> THEN m
  ELSE LET id == ToNumber(IF Falsy(IdOf(Head(items))) THEN Num(0)
                          ELSE IdOf(Head(items)))
       IN  MaxId(Tail(items),
                 IF m.k = "nan" \/ id.k = "nan" THEN JSNaN
                 ELSE IF NumLess(m, id) THEN id ELSE m)

\* utils.getNextId(items)

getNextId(items) == NumberAdd(MaxId(items, Num(0)), Num(1))

\* storage.add(key, item): the new item is returned whatever storage.set
\* returns; t is the time of utils.getCurrentTimestamp()
storage_add(store, key, item, t, setItemOk) ==
  Bind(storage_get(store, key), LAMBDA items :
    LET newItem == Spread(item, [id |-> getNextId(items), created_at |-> t])
    IN  [store |-> storage_set(store, key, Append(items, newItem), setItemOk),
         res |-> <<newItem>>])

\* storage.update(key, id, updates): the merged item, or null (<<>>) for an
\* id no item has
storage_update(store, key, id, updates, t, setItemOk) ==
  Bind(storage_get(store, key), LAMBDA items :
    LET index == findIndex(items, id)
    IN  IF index = 0 THEN [store |-> store, res |-> <<>>]
        ELSE LET merged == Spread(Spread(items[index], updates), [updated_at |-> t])
             IN  [store |-> storage_set(store, key, [items EXCEPT ![index] = merged],
                                        setItemOk),
                  res |-> <<merged>>])

\* storage.delete(key, id): true whatever was found and whatever storage.set
\* returns
storage_delete(store, key, id, setItemOk) ==
  Bind(storage_get(store, key), LAMBDA items :
    LET filtered == filterOutId(items, id)
    IN  [store |-> storage_set(store, key, filtered, setItemOk), flag |-> TRUE])

(***************************************************************************)
(* utils/storage.js: initializeData and clearAllData.  Each of their five  *)
(* setItem calls can throw (oks[key] is whether the one for key returns);  *)
(* storage.set catches, the setItem of the settings is not in a try, so a  *)
(* throw there ends the function and reaches the caller (raised).          *)
(***************************************************************************)
SETTINGS == "finance_settings"

\* the keys initializeData and clearAllData write [] to, in that order
FinanceSeqKeys ==
  <<"finance_todos", "finance_expenses", "finance_budgets", "finance_templates">>

FinanceKeys == {FinanceSeqKeys[i] : i \in 1..Len(FinanceSeqKeys)} \cup {SETTINGS}

\* JSON.stringify(settings)
SettingsItem(t) ==
  [kind |-> "object",
   items |-> <<[initialized |-> TRUE, version |-> "2.0", currency |-> "TWD",
                created_at |-> t]>>]

\* storage.set(key, []) for each key in turn
RECURSIVE SetAllEmpty(_, _, _)
SetAllEmpty(store, keys, oks) ==
  IF keys = <<>> THEN store
  ELSE SetAllEmpty(storage_set(store, Head(keys), <<>>, oks[Head(keys)]),
                   Tail(keys), oks)

initializeData(store, t, oks) ==
  IF store[SETTINGS].kind # "absent" THEN [store |-> store, raised |-> FALSE]
  ELSE IF ~oks[SETTINGS] THEN [store |-> store, raised |-> TRUE]
  ELSE [store |-> SetAllEmpty([store EXCEPT ![SETTINGS] = SettingsItem(t)],
                              FinanceSeqKeys, oks),
        raised |-> FALSE]

\* a mutant of clearAllData: the settings key is removed before it is written
clearAllDataRemoves(store, t, oks) ==
  LET cleared == SetAllEmpty(store, FinanceSeqKeys, oks)
  IN  IF oks[SETTINGS]
      THEN [store |-> [cleared EXCEPT ![SETTINGS] = SettingsItem(t)],
            raised |-> FALSE]
      ELSE [store |-> [cleared EXCEPT ![SETTINGS] = AbsentItem], raised |-> TRUE]

\* a mutant of clearAllData: the keys of the two services are emptied too
clearAllDataOfServices(store, t, oks) ==
  LET cleared == SetAllEmpty(store, FinanceSeqKeys \o <<"todos", "expenses">>,
                             [k \in DOMAIN store |-> TRUE])
  IN  [store |-> [cleared EXCEPT ![SETTINGS] = SettingsItem(t)],
       raised |-> FALSE]

clearAllData(store, t, oks) ==
  LET cleared == SetAllEmpty(store, FinanceSeqKeys, oks)
  IN  IF oks[SETTINGS]
      THEN [store |-> [cleared EXCEPT ![SETTINGS] = SettingsItem(t)],
            raised |-> FALSE]
      ELSE [store |-> cleared, raised |-> TRUE]

(***************************************************************************)
(* The application's store over time: SpecApp starts from the empty        *)
(* localStorage of a first visit.  initializeData runs when storage.js is  *)
(* loaded (and when called); clearAllData can be called once the module    *)
(* has loaded, that is once an initializeData has returned; the pages add  *)
(* todos and ledger entries through the services.  `last` keeps the call,  *)
(* the store before it, whether it raised and whether all of its setItem   *)
(* calls returned, and the todo the form is open for (editingTodo).  Of    *)
(* the setItem calls of one initializeData or clearAllData, all return,    *)
(* one throws, or all throw.                                               *)
(***************************************************************************)
\* the default category of the todo forms (the source's CJK literal for
\* "life")
FormCategory == "life"

\* Dashboard.tsx handleSaveTodo: the data built from the form's values.
\* today is dayjs().format('YYYY-MM-DD'); values.time is a dayjs object,
\* named here by the text its format('HH:mm') gives, or undefined
todoDataOf(values, today) ==
  [text |-> GetStr(values, "title"),
   description |-> OrDefault(GetStr(values, "description"), ""),
   date |-> today,
   time |-> OrDefault(GetStr(values, "time"), ""),
   priority |-> OrDefault(GetStr(values, "priority"), "medium"),
   category |-> OrDefault(GetStr(values, "category"), FormCategory)]

\* handleSaveTodo(values): updateTodo of the todo being edited (editingTodo,
\* <<>> for null), addTodo otherwise; the value the service returns is not
\* looked at
handleSaveTodo(store, values, editingTodo, today, t, r, t2, setItemOk) ==
  LET todoData == todoDataOf(values, today)
  IN  IF editingTodo # <<>>
      THEN updateTodo(store, editingTodo[1].id, todoData, setItemOk).store
      ELSE addTodo(store, todoData, t, r, t2, setItemOk).store

\* handleQuickExpense: the data built from the form's values; values.date is
\* a dayjs object, named here by the text its format('YYYY-MM-DD') gives
expenseDataOf(values) ==
  [description |-> GetStr(values, "description"),
   amount |-> IF Falsy(parseFloat(GetAmount(values))) THEN Num(0)
              ELSE parseFloat(GetAmount(values)),
   category |-> OrDefault(GetStr(values, "category"), DefaultCategory),
   type |-> GetStr(values, "type"),
   date |-> values.date]

handleQuickExpense(store, values, t, r, t2, setItemOk) ==
  addExpense(store, expenseDataOf(values), t, r, t2, setItemOk).store

\* what the todo form holds when it is submitted
TodoFormValues ==
  { [title |-> "run", priority |-> "high"],
    [title |-> "walk", description |-> "park", time |-> "09:30",
     priority |-> "low", category |-> DefaultCategory] }

\* what the quick expense form holds when it is submitted: the amount is the
\* number of the input or its text
ExpenseFormValues ==
  { [description |-> "lunch", amount |-> Num(150), type |-> "expense",
     date |-> DateStr(2025, 6, 1), category |-> "food"],
    [description |-> "bus", amount |-> Str(<<32, 51, 48>>), type |-> "expense",
     date |-> DateStr(2025, 6, 1)] }

\* dayjs().format('YYYY-MM-DD') at the time of the calls
Today == DateStr(2025, 6, 2)

AppCall(op, before, raised, allOk, loaded, editingTodo) ==
  [op |-> op, before |-> before, raised |-> raised, allOk |-> allOk,
   loaded |-> loaded, editingTodo |-> editingTodo]

\* the outcomes of the five setItem calls of initializeData or clearAllData:
\* all of them return, one of them throws, or all of them throw
SetItemOutcomes ==
  {o \in [FinanceKeys -> BOOLEAN] : Cardinality({k \in FinanceKeys : ~o[k]}) \in {0, 1, 5}}

InitApp ==
  /\ ls = [k \in Keys |-> AbsentItem]
  /\ now = 1
  /\ last = AppCall("none", [k \in Keys |-> AbsentItem], FALSE, TRUE, FALSE, <<>>)

InitializeData ==
  \E t \in now..MaxNow, oks \in SetItemOutcomes :
    LET out == initializeData(ls, t, oks)
    IN  /\ ls' = out.store
        /\ now' = t
        /\ last' = AppCall("initializeData", ls, out.raised,
                           \A k \in FinanceKeys : oks[k], ~out.raised,
                           last.editingTodo)

ClearAllData ==
  /\ last.loaded
  /\ \E t \in now..MaxNow, oks \in SetItemOutcomes :
       LET out == clearAllData(ls, t, oks)
       IN  /\ ls' = out.store
           /\ now' = t
           /\ last' = AppCall("clearAllData", ls, out.raised,
                              \A k \in FinanceKeys : oks[k], last.loaded,
                              last.editingTodo)

\* handleAddTodo: the form is opened for a new todo
HandleAddTodo ==
  /\ last.editingTodo # <<>>
  /\ last' = AppCall("handleAddTodo", ls, FALSE, TRUE, last.loaded, <<>>)
  /\ UNCHANGED <<ls, now>>

\* handleEditTodo(todo): the form is opened for a todo of the list
HandleEditTodo ==
  \E i \in 1..Len(getAllTodos(ls)) :
    /\ last.editingTodo # <<getAllTodos(ls)[i]>>
    /\ last' = AppCall("handleEditTodo", ls, FALSE, TRUE, last.loaded,
                       <<getAllTodos(ls)[i]>>)
    /\ UNCHANGED <<ls, now>>

\* handleSaveTodo: the form is submitted; editingTodo stays as it is
HandleSaveTodo ==
  /\ last.editingTodo # <<>> \/ Stored(ls) < MaxRecords
  /\ \E values \in TodoFormValues, setItemOk \in BOOLEAN :
       /\ ls' = handleSaveTodo(ls, values, last.editingTodo, Today, now, 0, now,
                               setItemOk)
       /\ last' = AppCall("handleSaveTodo", ls, FALSE, setItemOk, last.loaded,
                          last.editingTodo)
       /\ UNCHANGED now

\* handleQuickExpense: the quick expense form is submitted
HandleQuickExpense ==
  /\ Stored(ls) < MaxRecords
  /\ \E values \in ExpenseFormValues, setItemOk \in BOOLEAN :
       /\ ls' = handleQuickExpense(ls, values, now, 0, now, setItemOk)
       /\ last' = AppCall("handleQuickExpense", ls, FALSE, setItemOk,
                          last.loaded, last.editingTodo)
       /\ UNCHANGED now

NextApp ==
  \/ InitializeData
  \/ ClearAllData
  \/ HandleAddTodo
  \/ HandleEditTodo
  \/ HandleSaveTodo
  \/ HandleQuickExpense

SpecApp == InitApp /\ [][NextApp]_vars

(***************************************************************************)
(* The round trip through the store: SpecStore starts from a store that    *)
(* earlier writes have filled, or whose keys are missing, or whose keys    *)
(* hold a text that is not JSON (left by the user or by another script of  *)
(* the origin: the case the readers' catch is written for).  It reads a    *)
(* key (storage.get, loadTodos or loadExpenses), or writes a sequence      *)
(* (storage.set, saveTodos or saveExpenses) and reads the key back.        *)
(***************************************************************************)
\* records handed to the writers: a todo whose id is a text with a quote
\* and a backslash in it, a ledger entry whose amount has a fraction, a todo
\* whose id and text are undefined and a ledger entry whose amount is NaN
StoreRecords ==
  << [id |-> Str(<<97, 34, 92, 99>>), text |-> "run", completed |-> FALSE,
      date |-> DateStr(2025, 6, 2),
      priority |-> "medium", category |-> DefaultCategory, createdAt |-> 1],
     [id |-> Num(2), amount |-> Double(150, <<1>>), description |-> "lunch", category |-> "food",
      type |-> "expense", date |-> DateStr(2025, 6, 1), createdAt |-> 2],
     [id |-> JSUndef, text |-> Undefined, completed |-> TRUE, date |-> DateStr(2025, 6, 2),
      priority |-> "medium", category |-> DefaultCategory, createdAt |-> 3],
     [id |-> Num(4), amount |-> JSNaN, description |-> "lunch", category |-> "food",
      type |-> "expense", date |-> DateStr(2025, 6, 1), createdAt |-> 4] >>

StoreSeqs ==
  UNION {[1..n -> {StoreRecords[j] : j \in 1..Len(StoreRecords)}] : n \in 0..MaxStored}

\* the writer and the reader of each key
StoreKeys == {"finance_todos", TODOS_STORAGE_KEY, EXPENSES_STORAGE_KEY}

WriteTo(store, key, data, setItemOk) ==
  IF key = TODOS_STORAGE_KEY THEN saveTodos(store, data, setItemOk)
  ELSE IF key = EXPENSES_STORAGE_KEY THEN saveExpenses(store, data, setItemOk)
  ELSE storage_set(store, key, data, setItemOk)

ReadFrom(store, key) ==
  IF key = TODOS_STORAGE_KEY THEN loadTodos(store)
  ELSE IF key = EXPENSES_STORAGE_KEY THEN loadExpenses(store)
  ELSE storage_get(store, key)

StoreCall(op, key, data, flag, got) ==
  [op |-> op, key |-> key, data |-> data, flag |-> flag, got |-> got]

InitStore ==
  /\ \E data \in StoreSeqs :
       \E item \in {AbsentItem, CorruptItem, JSONstringify(data)} :
         ls = [k \in Keys |-> IF k \in StoreKeys THEN item ELSE AbsentItem]
  /\ now = 1
  /\ last = StoreCall("none", "", <<>>, FALSE, <<>>)

\* write(key, data)
Write ==
  \E key \in StoreKeys, data \in StoreSeqs, setItemOk \in BOOLEAN :
    /\ last.op = "none"
    /\ ls' = WriteTo(ls, key, data, setItemOk)
    /\ last' = StoreCall("write", key, data, setItemOk, <<>>)
    /\ UNCHANGED now

\* read(key), right after write(key, data)
Read ==
  /\ last.op = "write"
  /\ last' = [last EXCEPT !.op = "read", !.got = ReadFrom(ls, last.key)]
  /\ UNCHANGED <<ls, now>>

\* read(key) of the store as it was found
Get ==
  \E key \in StoreKeys :
    /\ last.op = "none"
    /\ last' = StoreCall("get", key, <<>>, FALSE, ReadFrom(ls, key))
    /\ UNCHANGED <<ls, now>>

\* items handed to storage.add: a new item, and a record read earlier
StoreItems == {[text |-> "run"], StoreRecords[1]}

\* storage.add(key, item)
StorageAdd ==
  \E key \in StoreKeys, item \in StoreItems, t \in now..MaxNow,
     setItemOk \in BOOLEAN :
    LET out == storage_add(ls, key, item, t, setItemOk)
    IN  /\ last.op = "none"
        /\ ls' = out.store
        /\ now' = t
        /\ last' = StoreCall("add", key, <<item>>, setItemOk, out.res)

\* storage.update(key, id, updates)
StorageUpdate ==
  \E key \in StoreKeys, t \in now..MaxNow, setItemOk \in BOOLEAN :
   \E id \in IdArgs(storage_get(ls, key)) :
    LET out == storage_update(ls, key, id, [completed |-> TRUE], t, setItemOk)
    IN  /\ last.op = "none"
        /\ out.res # <<>> \/ setItemOk
        /\ ls' = out.store
        /\ now' = t
        /\ last' = StoreCall("update", key, <<[completed |-> TRUE]>>, setItemOk,
                             out.res)

\* storage.delete(key, id)
StorageDelete ==
  \E key \in StoreKeys, setItemOk \in BOOLEAN :
   \E id \in IdArgs(storage_get(ls, key)) :
    LET out == storage_delete(ls, key, id, setItemOk)
    IN  /\ last.op = "none"
        /\ ls' = out.store
        /\ last' = StoreCall("delete", key, <<>>, out.flag, <<>>)
        /\ UNCHANGED now

NextStore ==
  \/ Write
  \/ Read
  \/ Get
  \/ StorageAdd
  \/ StorageUpdate
  \/ StorageDelete

SpecStore == InitStore /\ [][NextStore]_vars

(***************************************************************************)
(* todoService.js and expenseService.js: the queries.  Each of them reads  *)
(* its key through loadTodos / loadExpenses and calls no setItem.          *)
(***************************************************************************)
\* arr.filter(x => x.date === dateStr)
RECURSIVE filterByDate(_, _)
filterByDate(arr, dateStr) ==
  IF arr = <<>> THEN <<>>
  ELSE IF GetDate(Head(arr)) = dateStr
       THEN <<Head(arr)>> \o filterByDate(Tail(arr), dateStr)
  ELSE filterByDate(Tail(arr), dateStr)

\* a mutant of filterByField: the matches come out latest first
RECURSIVE filterByFieldLatestFirst(_, _, _)
filterByFieldLatestFirst(arr, field, value) ==
  IF arr = <<>> THEN <<>>
  ELSE IF GetStr(Head(arr), field) = value
       THEN filterByFieldLatestFirst(Tail(arr), field, value) \o <<Head(arr)>>
  ELSE filterByFieldLatestFirst(Tail(arr), field, value)

\* arr.filter(x => x[field] === value), field one of category and priority
RECURSIVE filterByField(_, _, _)
filterByField(arr, field, value) ==
  IF arr = <<>> THEN <<>>
  ELSE IF GetStr(Head(arr), field) = value
       THEN <<Head(arr)>> \o filterByField(Tail(arr), field, value)
  ELSE filterByField(Tail(arr), field, value)

\* a mutant of countPending: every todo counts as pending
countPendingAll(arr) == Len(arr)

\* arr.filter(todo => todo.completed).length and
\* arr.filter(todo => !todo.completed).length
countCompleted(arr) ==
  Cardinality({i \in 1..Len(arr) : Flag(arr[i], "completed")})
countPending(arr) ==
  Cardinality({i \in 1..Len(arr) : ~Flag(arr[i], "completed")})

getTodosByDate(store, date) == filterByDate(loadTodos(store), date)

getTodosByCategory(store, category) ==
  filterByField(loadTodos(store), "category", category)

getTodosByPriority(store, priority) ==
  filterByField(loadTodos(store), "priority", priority)

\* a mutant of getTodoStats: the date is ignored
getTodoStatsOfAll(store, date) ==
  LET todos == loadTodos(store)
  IN  [total |-> Len(todos),
       completed |-> countCompleted(todos),
       pending |-> countPending(todos),
       high |-> Len(filterByField(todos, "priority", "high")),
       medium |-> Len(filterByField(todos, "priority", "medium")),
       low |-> Len(filterByField(todos, "priority", "low"))]

\* getTodoStats(date), NullDate for an omitted (or null) date
getTodoStats(store, date) ==
  Bind(loadTodos(store), LAMBDA loaded :
    LET todos == IF date # NullDate THEN filterByDate(loaded, date) ELSE loaded
    IN  [total |-> Len(todos),
         completed |-> countCompleted(todos),
         pending |-> countPending(todos),
         high |-> Len(filterByField(todos, "priority", "high")),
         medium |-> Len(filterByField(todos, "priority", "medium")),
         low |-> Len(filterByField(todos, "priority", "low"))])

getExpensesByDate(store, date) == filterByDate(loadExpenses(store), date)

getExpensesByType(store, type) == filterByType(loadExpenses(store), type)

getExpensesByCategory(store, category) ==
  filterByField(loadExpenses(store), "category", category)

\* the property names every object inherits from Object.prototype
InheritedNames ==
  {"constructor", "toString", "toLocaleString", "valueOf", "hasOwnProperty",
   "isPrototypeOf", "propertyIsEnumerable", "__proto__", "__defineGetter__",
   "__defineSetter__", "__lookupGetter__", "__lookupSetter__"}

\* the property key a string property's value names: 'undefined' for
\* undefined
PropertyKey(v) == IF v = Undefined THEN "undefined" ELSE v

\* The objects that Object.prototype holds live as long as the page, and
\* getCategoryStats writes on them.  A realm maps each inherited name whose
\* object was written on to the count and the total left there:
\* "__proto__" names Object.prototype itself, "constructor" names Object,
\* and the other names the methods of Object.prototype.  The page starts
\* with none of them written on.
NewRealm == <<>>

\* what a caller is left with when getCategoryStats raised a TypeError
RaisedTypeError == [error |-> "TypeError"]

\* Object.prototype[prop] for a name that is no method of it: the count or
\* the total an earlier write left there, else undefined
PrototypeProp(realm, prop) ==
  IF prop \in {"count", "total"} /\ "__proto__" \in DOMAIN realm
  THEN realm["__proto__"][prop]
  ELSE JSUndef

\* target[prop] for the object the inherited name category denotes: its own
\* property, else the one it inherits from Object.prototype
InheritedProp(realm, category, prop) ==
  IF category \in DOMAIN realm THEN realm[category][prop]
  ELSE PrototypeProp(realm, prop)

\* count += 1 and total += expense.amount on the object the inherited name
\* category denotes
WrittenOn(realm, category, expense) ==
  [c \in (DOMAIN realm) \cup {category} |->
     IF c = category
     THEN [count |-> JSAdd(InheritedProp(realm, category, "count"), Num(1)),
           total |-> JSAdd(InheritedProp(realm, category, "total"),
                           GetAmount(expense))]
     ELSE realm[c]]

\* categoryStats[category] = {count: 0, total: 0, type: expense.type}
Created(categoryStats, category, expense) ==
  categoryStats @@
    (category :> [count |-> 0, total |-> Num(0), type |-> GetStr(expense, "type")])

\* count += 1 and total += expense.amount on the entry of category
Counted(categoryStats, category, expense) ==
  [categoryStats EXCEPT
     ![category] = [count |-> @.count + 1,
                    total |-> JSAdd(@.total, GetAmount(expense)),
                    type |-> @.type]]

\* the forEach of getCategoryStats: categoryStats maps a category to its
\* entry; an entry is created (with the type of the record at hand) when
\* categoryStats[category] is falsy, then count += 1 and total +=
\* expense.amount.  categoryStats[category] reads the entry or, without one,
\* what the object inherits:
\*   - for a name of InheritedNames an object, which is truthy: no entry is
\*     created, and count and total are set on that object;
\*   - for 'count' or 'total' the value an earlier write left on
\*     Object.prototype: NaN is falsy and an entry is created, a text is
\*     truthy and setting a property on it raises a TypeError (the module is
\*     strict code), which ends the forEach and the call;
\*   - for any other name undefined, and an entry is created.
RECURSIVE forEachCategory(_, _, _)
forEachCategory(arr, categoryStats, realm) ==
  IF arr = <<>>
  THEN [raised |-> FALSE, stats |-> categoryStats, realm |-> realm]
  ELSE LET expense == Head(arr)
           category == PropertyKey(GetStr(expense, "category"))
       IN  IF category \in DOMAIN categoryStats
           THEN forEachCategory(Tail(arr),
                                Counted(categoryStats, category, expense), realm)
           ELSE IF category \in InheritedNames
           THEN forEachCategory(Tail(arr), categoryStats,
                                WrittenOn(realm, category, expense))
           ELSE IF ~Falsy(PrototypeProp(realm, category))
           THEN [raised |-> TRUE, stats |-> categoryStats, realm |-> realm]
           ELSE forEachCategory(Tail(arr),
                                Counted(Created(categoryStats, category, expense),
                                        category, expense),
                                realm)

\* getCategoryStats(type), "" for an omitted (or null) type, on a page whose
\* inherited objects are as realm says: whether the call raised, the
\* categoryStats it returned otherwise, and the realm it leaves
getCategoryStats(store, type, realm) ==
  Bind(loadExpenses(store), LAMBDA loaded :
    LET expenses == IF type # "" THEN filterByType(loaded, type) ELSE loaded
    IN  forEachCategory(expenses, <<>>, realm))

\* expenses.filter(e => e.date >= startDate && e.date <= endDate), for two
\* date strings
RECURSIVE filterByDateRange(_, _, _)
filterByDateRange(arr, startDate, endDate) ==
  IF arr = <<>> THEN <<>>
  ELSE LET expenseDate == GetDate(Head(arr))
           rest == filterByDateRange(Tail(arr), startDate, endDate)
       IN  IF DateAtLeast(expenseDate, startDate) /\ DateAtLeast(endDate, expenseDate)
           THEN <<Head(arr)>> \o rest
           ELSE rest

getExpensesByDateRange(store, startDate, endDate) ==
  filterByDateRange(loadExpenses(store), startDate, endDate)

(***************************************************************************)
(* pages/Dashboard.tsx: the completion rates of the dashboard and of the   *)
(* calendar page, and the messages of the calendar page under its two      *)
(* progress bars.                                                          *)
(***************************************************************************)
\* the pairs (completed, total), total up to 211, for which the double
\* (completed / total) * 100 lies just below a half that the exact quotient
\* reaches (23 / 40 * 100 is 57.49999999999999): Math.round rounds them down
BelowHalf ==
  {<<23, 40>>, <<46, 80>>, <<69, 120>>, <<92, 160>>, <<29, 200>>, <<57, 200>>,
   <<113, 200>>, <<115, 200>>}

\* Math.round((completed / total) * 100), halves rounded up
MathRound(completed, total) ==
  IF <<completed, total>> \in BelowHalf THEN (100 * completed) \div total
  ELSE (200 * completed + total) \div (2 * total)

\* total > 0 ? Math.round((completed / total) * 100) : 0
completionRate(completed, total) ==
  IF total > 0 THEN MathRound(completed, total) ELSE 0

\* s.startsWith(prefix)
startsWith(s, prefix) ==
  Len(prefix) <= Len(s) /\ SubSeq(s, 1, Len(prefix)) = prefix

\* dayjs().format('YYYY-MM')
currentMonth(nowYear, nowMonth) == SubSeq(DateStr(nowYear, nowMonth, 1), 1, 7)

\* allTodos.filter(todo => todo.date && todo.date.startsWith(currentMonth))
RECURSIVE filterByMonth(_, _)
filterByMonth(arr, month) ==
  IF arr = <<>> THEN <<>>
  ELSE IF GetDate(Head(arr)) \notin {UndefinedDate, <<>>}
          /\ startsWith(GetDate(Head(arr)), month)
       THEN <<Head(arr)>> \o filterByMonth(Tail(arr), month)
  ELSE filterByMonth(Tail(arr), month)

\* Dashboard: loadData takes the totals of getTodoStats() into monthlyStats,
\* and the page computes monthlyCompletionRate from them
monthlyCompletionRate(store) ==
  LET todoStats == getTodoStats(store, NullDate)
  IN  completionRate(todoStats.completed, todoStats.total)

\* monthTodos.filter(todo => todo.completed || todo.done).length
countCompletedOrDone(arr) ==
  Cardinality({i \in 1..Len(arr) :
                 Flag(arr[i], "completed") \/ Flag(arr[i], "done")})

\* CalendarPage: monthCompletionRate
monthCompletionRate(store, nowYear, nowMonth) ==
  LET monthTodos == filterByMonth(getAllTodos(store),
                                  currentMonth(nowYear, nowMonth))
  IN  completionRate(countCompletedOrDone(monthTodos), Len(monthTodos))

\* CalendarPage: the text under the bar of the selected date
selectedDateMessage(completed, total) ==
  LET selectedDateCompletionRate == completionRate(completed, total)
  IN  IF total = 0 THEN "day_none"
      ELSE IF selectedDateCompletionRate = 100 THEN "day_all"
      ELSE IF selectedDateCompletionRate >= 80 THEN "day_almost"
      ELSE IF selectedDateCompletionRate >= 50 THEN "day_half"
      ELSE "day_many"

\* CalendarPage: the text under the bar of the month
monthMessage(completed, total) ==
  LET rate == completionRate(completed, total)
  IN  IF total = 0 THEN "month_none"
      ELSE IF rate = 100 THEN "month_all"
      ELSE IF rate >= 80 THEN "month_excellent"
      ELSE IF rate >= 60 THEN "month_good"
      ELSE "month_room"

(***************************************************************************)
(* The queries on a store the program has built: SpecQuery starts from the *)
(* todos that addTodo and toggleTodo leave, or from the ledger that        *)
(* addExpense leaves, on a page just loaded, and makes a query, then       *)
(* possibly calls the same function once more.  `last` keeps the latest    *)
(* query, its arguments, what it returned, whether a query was made before *)
(* it, the store before the first query, the realm the queries have left   *)
(* (see NewRealm) and, when the query before it was the same call (the     *)
(* same function with the same arguments), what that call returned.        *)
(***************************************************************************)
MaxQueried == 3

\* the todos: the data handed to addTodo and whether the todo was toggled
\* afterwards.  The first three are the todos of the statistics example
\* (the third with the done flag the calendar page reads besides completed);
\* the fourth has no priority and a date in the month before the current
\* one, the fifth a priority of the caller's own
QueryTodos ==
  << [data |-> [text |-> "Taxi", date |-> DateStr(2025, 6, 1),
                priority |-> "high", category |-> "Food"],
      toggled |-> FALSE],
     [data |-> [text |-> "wucan", date |-> DateStr(2025, 6, 1),
                priority |-> "high"],
      toggled |-> TRUE],
     [data |-> [text |-> "tea", date |-> DateStr(2025, 6, 2),
                priority |-> "low", category |-> "Food", done |-> TRUE],
      toggled |-> FALSE],
     [data |-> [text |-> "Taxi", date |-> DateStr(2025, 5, 31)],
      toggled |-> FALSE],
     [data |-> [text |-> "tea", date |-> DateStr(2025, 6, 2),
                priority |-> "urgent"],
      toggled |-> TRUE] >>

\* the data handed to addExpense: an expense, an income, an entry whose type
\* is neither and whose category is the name of a property every object
\* inherits, an expense whose amount is the text of the form field, an
\* expense whose category is a property name of the entries themselves, and
\* an expense with a text amount whose category names Object.prototype
QueryExpenses ==
  << [description |-> "wucan", amount |-> Num(120), type |-> "expense",
      date |-> DateStr(2025, 6, 1), category |-> "Food"],
     [description |-> "Taxi", amount |-> Num(50000), type |-> "income",
      date |-> DateStr(2025, 6, 1), category |-> "Social"],
     [description |-> "tea", amount |-> Num(300), type |-> "transfer",
      date |-> DateStr(2025, 6, 2), category |-> "constructor"],
     [description |-> "tea", amount |-> Str(ToStringNat(80)), type |-> "expense",
      date |-> DateStr(2025, 6, 2), category |-> "Food"],
     [description |-> "tea", amount |-> Num(40), type |-> "expense",
      date |-> DateStr(2025, 6, 2), category |-> "total"],
     [description |-> "tea", amount |-> Str(ToStringNat(80)), type |-> "expense",
      date |-> DateStr(2025, 6, 2), category |-> "__proto__"] >>

\* the store after the first n todos of picks were added (one addTodo per
\* millisecond) and toggled where the pick says so
RECURSIVE AfterTodos(_, _)
AfterTodos(picks, n) ==
  IF n = 0 THEN [k \in Keys |-> AbsentItem]
  ELSE LET q == QueryTodos[picks[n]]
           added == addTodo(AfterTodos(picks, n - 1), q.data, n, 0, n, TRUE).store
       IN  IF q.toggled THEN toggleTodo(added, generateId(n, 0), TRUE).store
           ELSE added

\* the store after the first n entries of picks were added
RECURSIVE AfterExpenses(_, _)
AfterExpenses(picks, n) ==
  IF n = 0 THEN [k \in Keys |-> AbsentItem]
  ELSE addExpense(AfterExpenses(picks, n - 1), QueryExpenses[picks[n]],
                  n, 0, n, TRUE).store

TodoPicks == UNION {[1..n -> 1..Len(QueryTodos)] : n \in 0..MaxQueried}

\* an entry with a text amount is the latest one (see Picks)
ExpensePicks ==
  {picks \in UNION {[1..n -> 1..Len(QueryExpenses)] : n \in 0..MaxQueried} :
     \A i \in 1..(Len(picks) - 1) : QueryExpenses[picks[i]].amount.k = "num"}

\* the arguments of the callers
QueryDates == {DateStr(2025, 6, 1), DateStr(2025, 6, 2), DateStr(2025, 7, 1)}
QueryCategories == {"Food", "Social", DefaultCategory}
QueryPriorities == {"high", "medium", "low"}
QueryTypes == {"income", "expense"}

\* the query before was not the same call
NoFirst == <<>>

QueryCall(op, date, endDate, key, out) ==
  [op |-> op, date |-> date, endDate |-> endDate, key |-> key, out |-> out,
   again |-> last.op # "none",
   before |-> IF last.op = "none" THEN ls ELSE last.before,
   realm |-> last.realm,
   first |-> IF /\ last.op = op
                /\ last.date = date
                /\ last.endDate = endDate
                /\ last.key = key
             THEN <<last.out>>
             ELSE NoFirst]

\* a function is called on the page as loaded, or once more right after its
\* first call
MayCall(op) == last.op = "none" \/ (last.op = op /\ ~last.again)

InitQuery ==
  /\ \/ \E picks \in TodoPicks : ls = AfterTodos(picks, Len(picks))
     \/ \E picks \in ExpensePicks : ls = AfterExpenses(picks, Len(picks))
  /\ now = MaxQueried + 1
  /\ last = [op |-> "none", date |-> NullDate, endDate |-> NullDate,
             key |-> "", out |-> <<>>, again |-> FALSE, before |-> ls,
             realm |-> NewRealm, first |-> NoFirst]

GetAllTodos ==
  /\ MayCall("getAllTodos")
  /\ last' = QueryCall("getAllTodos", NullDate, NullDate, "", getAllTodos(ls))
  /\ UNCHANGED <<ls, now>>

GetTodosByDate ==
  \E date \in QueryDates :
    /\ MayCall("getTodosByDate")
    /\ last' = QueryCall("getTodosByDate", date, NullDate, "",
                         getTodosByDate(ls, date))
    /\ UNCHANGED <<ls, now>>

GetTodosByCategory ==
  \E category \in QueryCategories :
    /\ MayCall("getTodosByCategory")
    /\ last' = QueryCall("getTodosByCategory", NullDate, NullDate, category,
                         getTodosByCategory(ls, category))
    /\ UNCHANGED <<ls, now>>

GetTodosByPriority ==
  \E priority \in QueryPriorities :
    /\ MayCall("getTodosByPriority")
    /\ last' = QueryCall("getTodosByPriority", NullDate, NullDate, priority,
                         getTodosByPriority(ls, priority))
    /\ UNCHANGED <<ls, now>>

GetTodoStats ==
  \E date \in QueryDates \cup {NullDate} :
    /\ MayCall("getTodoStats")
    /\ last' = QueryCall("getTodoStats", date, NullDate, "",
                         getTodoStats(ls, date))
    /\ UNCHANGED <<ls, now>>

SearchTodosAgain ==
  /\ MayCall("searchTodos")
  /\ last' = QueryCall("searchTodos", NullDate, NullDate, "can",
                       searchTodos(ls, "can"))
  /\ UNCHANGED <<ls, now>>

GetAllExpenses ==
  /\ MayCall("getAllExpenses")
  /\ last' = QueryCall("getAllExpenses", NullDate, NullDate, "",
                       getAllExpenses(ls))
  /\ UNCHANGED <<ls, now>>

GetExpensesByDate ==
  \E date \in QueryDates :
    /\ MayCall("getExpensesByDate")
    /\ last' = QueryCall("getExpensesByDate", date, NullDate, "",
                         getExpensesByDate(ls, date))
    /\ UNCHANGED <<ls, now>>

GetExpensesByType ==
  \E type \in QueryTypes :
    /\ MayCall("getExpensesByType")
    /\ last' = QueryCall("getExpensesByType", NullDate, NullDate, type,
                         getExpensesByType(ls, type))
    /\ UNCHANGED <<ls, now>>

GetExpensesByCategory ==
  \E category \in QueryCategories :
    /\ MayCall("getExpensesByCategory")
    /\ last' = QueryCall("getExpensesByCategory", NullDate, NullDate, category,
                         getExpensesByCategory(ls, category))
    /\ UNCHANGED <<ls, now>>

GetCategoryStats ==
  \E type \in QueryTypes \cup {""} :
    /\ MayCall("getCategoryStats")
    /\ LET call == getCategoryStats(ls, type, last.realm)
       IN  last' = [QueryCall("getCategoryStats", NullDate, NullDate, type,
                              IF call.raised THEN RaisedTypeError ELSE call.stats)
                      EXCEPT !.realm = call.realm]
    /\ UNCHANGED <<ls, now>>

GetExpensesByDateRange ==
  \E startDate \in QueryDates, endDate \in QueryDates :
    /\ MayCall("getExpensesByDateRange")
    /\ last' = QueryCall("getExpensesByDateRange", startDate, endDate, "",
                         getExpensesByDateRange(ls, startDate, endDate))
    /\ UNCHANGED <<ls, now>>

GetStatsAgain ==
  \E startDate \in {NullDate, DateStr(2025, 6, 2)},
     endDate \in {NullDate, DateStr(2025, 6, 1)} :
    /\ MayCall("getExpenseStats")
    /\ last' = QueryCall("getExpenseStats", startDate, endDate, "",
                         getExpenseStats(ls, startDate, endDate))
    /\ UNCHANGED <<ls, now>>

GetMonthlyStatsAgain ==
  /\ MayCall("getMonthlyStats")
  /\ last' = QueryCall("getMonthlyStats", NullDate, NullDate, "",
                       getMonthlyStats(ls, NowYear, NowMonth, NowYear, NowMonth))
  /\ UNCHANGED <<ls, now>>

SearchExpensesAgain ==
  /\ MayCall("searchExpenses")
  /\ last' = QueryCall("searchExpenses", NullDate, NullDate, "can",
                       searchExpenses(ls, "can"))
  /\ UNCHANGED <<ls, now>>

\* the dashboard and the calendar page rendered on the same store
ShowMonthlyRates ==
  /\ MayCall("monthlyRates")
  /\ last' = QueryCall("monthlyRates", NullDate, NullDate, "",
                       [dashboard |-> monthlyCompletionRate(ls),
                        calendar |-> monthCompletionRate(ls, NowYear, NowMonth)])
  /\ UNCHANGED <<ls, now>>

NextQuery ==
  \/ GetAllTodos
  \/ GetTodosByDate
  \/ GetTodosByCategory
  \/ GetTodosByPriority
  \/ GetTodoStats
  \/ SearchTodosAgain
  \/ GetAllExpenses
  \/ GetExpensesByDate
  \/ GetExpensesByType
  \/ GetExpensesByCategory
  \/ GetCategoryStats
  \/ GetExpensesByDateRange
  \/ GetStatsAgain
  \/ GetMonthlyStatsAgain
  \/ SearchExpensesAgain
  \/ ShowMonthlyRates

SpecQuery == InitQuery /\ [][NextQuery]_vars

(***************************************************************************)
(* The calendar page on the counts of its todos: SpecRate starts from the  *)
(* number of todos in scope (of the selected date, or of the month) and    *)
(* the number of them that are completed, and renders one of the two bars. *)
(* `last` keeps the counts, the bar, its percentage and its message.       *)
(***************************************************************************)
MaxInScope == 200

RateCall(op, completed, total, rate, message) ==
  [op |-> op, completed |-> completed, total |-> total, rate |-> rate,
   message |-> message]

InitRate ==
  /\ ls = [k \in Keys |-> AbsentItem]
  /\ now = 1
  /\ \E total \in 0..MaxInScope :
       \E completed \in 0..total :
         last = RateCall("none", completed, total, 0, "")

ShowSelectedDate ==
  /\ last.op = "none"
  /\ last' = RateCall("selectedDate", last.completed, last.total,
                      completionRate(last.completed, last.total),
                      selectedDateMessage(last.completed, last.total))
  /\ UNCHANGED <<ls, now>>

ShowMonth ==
  /\ last.op = "none"
  /\ last' = RateCall("month", last.completed, last.total,
                      completionRate(last.completed, last.total),
                      monthMessage(last.completed, last.total))
  /\ UNCHANGED <<ls, now>>

NextRate ==
  \/ ShowSelectedDate
  \/ ShowMonth

SpecRate == InitRate /\ [][NextRate]_vars

(***************************************************************************)
(* pages/FinancePage.tsx: the monthly budget.  The page keeps the month    *)
(* and the year it displays, the budget, the text of the budget input and  *)
(* whether the budget dialog is open; the budget of a month is stored as   *)
(* text under the key budget-YYYY-MM.                                      *)
(***************************************************************************)
\* the budget keys of the months the page is taken through, and their code
\* units
BudgetKeys == {"budget-2025-12", "budget-2026-01", "budget-2026-02"}

BudgetKeyText ==
  [k \in BudgetKeys |->
     CASE k = "budget-2025-12" -> <<98, 117, 100, 103, 101, 116, 45, 50, 48, 50, 53, 45, 49, 50>>
       [] k = "budget-2026-01" -> <<98, 117, 100, 103, 101, 116, 45, 50, 48, 50, 54, 45, 48, 49>>
       [] k = "budget-2026-02" -> <<98, 117, 100, 103, 101, 116, 45, 50, 48, 50, 54, 45, 48, 50>>]

AllKeys == Keys \cup BudgetKeys

\* `${year}-${String(month + 1).padStart(2, '0')}`, month counted from 0
monthStr(year, month) == SubSeq(DateStr(year, month + 1, 1), 1, 7)

\* `budget-${monthStr}`
budgetKey(year, month) ==
  CHOOSE k \in BudgetKeys :
    BudgetKeyText[k] = <<98, 117, 100, 103, 101, 116, 45>> \o monthStr(year, month)

\* a text stored by setItem(key, text)
TextItem(s) == [kind |-> "text", items |-> s]

\* the initializer of the budget state:
\* savedBudget ? parseFloat(savedBudget) : 0
savedBudgetOf(store, year, month) ==
  LET savedBudget == store[budgetKey(year, month)]
  IN  IF savedBudget.kind = "absent" \/ savedBudget.items = <<>> THEN Num(0)
      ELSE parseFloat(Str(savedBudget.items))

\* the component body throws while the page shows the entries `expenses`:
\* a TypeError on e.date.startsWith for an entry of the ledger without a
\* date, a TypeError on exp.description.toLowerCase for an entry shown
\* without a description, a SyntaxError on JSON.parse for a text under
\* 'expenses' that is not JSON
bodyThrows(store, expenses) ==
  \/ \E i \in 1..Len(getAllExpenses(store)) :
       GetDate(getAllExpenses(store)[i]) = UndefinedDate
  \/ \E i \in 1..Len(expenses) : GetStr(expenses[i], "description") = Undefined
  \/ ParseThrows(store[EXPENSES_STORAGE_KEY])

\* what is left of a page whose body threw: nothing catches, and the page
\* is taken down
NoPage == [thrown |-> TRUE]

\* the page when it is mounted in a month, todayStr the date of that day:
\* the body runs with no entries shown, the effect puts the entries of the
\* day into `expenses`, and the body runs again
mountFinancePage(store, nowYear, nowMonth, todayStr) ==
  IF \/ bodyThrows(store, <<>>)
     \/ bodyThrows(store, filterByDate(getAllExpenses(store), todayStr))
  THEN NoPage
  ELSE [thrown |-> FALSE, year |-> nowYear, month |-> nowMonth,
        budget |-> savedBudgetOf(store, nowYear, nowMonth),
        showBudgetModal |-> FALSE, tempBudget |-> <<>>]

\* the button of the budget card
openBudgetModal(page) ==
  [page EXCEPT !.tempBudget = ToStringVal(page.budget),
               !.showBudgetModal = TRUE]

\* onChange of the input: value ? value.toString() : ''
changeTempBudget(page, value) ==
  [page EXCEPT !.tempBudget = IF Falsy(value) THEN <<>> ELSE ToStringVal(value)]

\* a mutant of saveBudget: a month that has a budget keeps it
saveBudgetOnce(page, store, setItemOk) ==
  IF page.tempBudget # <<>> /\ store[budgetKey(page.year, page.month)].kind = "absent"
  THEN [page |-> [page EXCEPT !.budget = parseFloat(Str(page.tempBudget)),
                              !.showBudgetModal = FALSE],
        store |-> [store EXCEPT ![budgetKey(page.year, page.month)] =
                     TextItem(ToStringVal(parseFloat(Str(page.tempBudget))))],
        raised |-> FALSE]
  ELSE [page |-> page, store |-> store, raised |-> FALSE]

\* saveBudget; setItemOk is whether setItem returned.  setItem is not in a
\* try: when it throws, setBudget has been called and setShowBudgetModal
\* has not
saveBudget(page, store, setItemOk) ==
  IF page.tempBudget # <<>>
  THEN LET budgetValue == parseFloat(Str(page.tempBudget))
       IN  IF setItemOk
           THEN [page |-> [page EXCEPT !.budget = budgetValue,
                                       !.showBudgetModal = FALSE],
                 store |-> [store EXCEPT ![budgetKey(page.year, page.month)] =
                              TextItem(ToStringVal(budgetValue))],
                 raised |-> FALSE]
           ELSE [page |-> [page EXCEPT !.budget = budgetValue],
                 store |-> store,
                 raised |-> TRUE]
  ELSE [page |-> page, store |-> store, raised |-> FALSE]

\* changeMonth(delta): setMonth and setYear
changeMonth(page, delta) ==
  LET newMonth == page.month + delta
  IN  IF newMonth < 0
      THEN [page EXCEPT !.month = 11, !.year = page.year - 1]
      ELSE IF newMonth > 11
      THEN [page EXCEPT !.month = 0, !.year = page.year + 1]
      ELSE [page EXCEPT !.month = newMonth]

(***************************************************************************)
(* The finance page over time: SpecFinance starts with the page mounted on *)
(* the first of December 2025 or of January 2026, on a store in which      *)
(* earlier visits may have saved budgets and a ledger entry (or another    *)
(* script a text that is not JSON), and follows the user through the       *)
(* budget dialog and the month buttons; a page whose body threw is gone,   *)
(* and nothing follows.  `last` keeps the page, the latest action, the     *)
(* store before it and whether its setItem returned.                       *)
(***************************************************************************)
\* the months of the page's clock when it is mounted (month counted from 0)
MountMonths == {<<2025, 11>>, <<2026, 0>>}

\* the months the page is taken through
ShownMonths == {<<2025, 11>>, <<2026, 0>>, <<2026, 1>>}

\* the values the budget input hands to onChange: null for an input that is
\* cleared, or the number typed
BudgetValues == {JSNull, Num(500), Num(800)}

FinanceCall(op, page, before, setItemOk) ==
  [op |-> op, page |-> page, before |-> before, setItemOk |-> setItemOk]

\* the data of the entry an earlier visit handed to addExpense: an entry of
\* June, an entry without a date, and an entry of the first of December
\* without a description
FinanceEntries ==
  << QueryExpenses[1],
     [description |-> "tea", amount |-> Num(5), type |-> "expense"],
     [amount |-> Num(5), type |-> "expense", date |-> DateStr(2025, 12, 1)] >>

\* what the key 'expenses' holds when the page is mounted
FinanceLedgers ==
  {AbsentItem, CorruptItem}
    \cup {addExpense([k \in Keys |-> AbsentItem], FinanceEntries[i],
                     1, 0, 1, TRUE).store[EXPENSES_STORAGE_KEY] :
            i \in 1..Len(FinanceEntries)}

InitFinance ==
  /\ \E saved \in [BudgetKeys -> {AbsentItem, TextItem(ToStringNat(500))}],
        ledger \in FinanceLedgers :
       ls = [k \in AllKeys |->
               IF k \in BudgetKeys THEN saved[k]
               ELSE IF k = EXPENSES_STORAGE_KEY THEN ledger
               ELSE AbsentItem]
  /\ now = 1
  /\ \E m \in MountMonths :
       last = FinanceCall("mount",
                          mountFinancePage(ls, m[1], m[2],
                                           DateStr(m[1], m[2] + 1, 1)),
                          ls, TRUE)

OpenBudgetModal ==
  /\ ~last.page.thrown
  /\ ~last.page.showBudgetModal
  /\ last' = FinanceCall("openBudgetModal", openBudgetModal(last.page), ls, TRUE)
  /\ UNCHANGED <<ls, now>>

ChangeTempBudget ==
  \E value \in BudgetValues :
    /\ ~last.page.thrown
    /\ last.page.showBudgetModal
    /\ last' = FinanceCall("changeTempBudget",
                           changeTempBudget(last.page, value), ls, TRUE)
    /\ UNCHANGED <<ls, now>>

SaveBudget ==
  \E setItemOk \in BOOLEAN :
    LET out == saveBudget(last.page, ls, setItemOk)
    IN  /\ ~last.page.thrown
        /\ last.page.showBudgetModal
        /\ ls' = out.store
        /\ last' = FinanceCall("saveBudget", out.page, ls, setItemOk)
        /\ UNCHANGED now

CancelBudget ==
  /\ ~last.page.thrown
  /\ last.page.showBudgetModal
  /\ last' = FinanceCall("cancelBudget",
                         [last.page EXCEPT !.showBudgetModal = FALSE], ls, TRUE)
  /\ UNCHANGED <<ls, now>>

\* the two month buttons, behind the dialog while it is open
ChangeMonth ==
  \E delta \in {-1, 1} :
    LET page == changeMonth(last.page, delta)
    IN  /\ ~last.page.thrown
        /\ ~last.page.showBudgetModal
        /\ <<page.year, page.month>> \in ShownMonths
        /\ last' = FinanceCall("changeMonth", page, ls, TRUE)
        /\ UNCHANGED <<ls, now>>

NextFinance ==
  \/ OpenBudgetModal
  \/ ChangeTempBudget
  \/ SaveBudget
  \/ CancelBudget
  \/ ChangeMonth

SpecFinance == InitFinance /\ [][NextFinance]_vars

(***************************************************************************)
(* The keys of the store: SpecKeys starts from a store in which the todo   *)
(* service, the ledger service, utils/storage.js and the finance page may  *)
(* each have written their keys, and makes one call of a function that     *)
(* writes.  `last` keeps the call and the store before it.                 *)
(***************************************************************************)
KeysCall(op, before) == [op |-> op, before |-> before]

InitKeys ==
  /\ \E todos \in {<<>>, <<1>>, <<1, 2>>}, ledger \in {<<>>, <<1>>, <<1, 2>>},
        initialized \in BOOLEAN,
        budget \in {AbsentItem, TextItem(ToStringNat(500))} :
       ls = [k \in AllKeys |->
               IF k \in BudgetKeys THEN budget
               ELSE IF k = TODOS_STORAGE_KEY
               THEN AfterTodos(todos, Len(todos))[k]
               ELSE IF k = EXPENSES_STORAGE_KEY
               THEN AfterExpenses(ledger, Len(ledger))[k]
               ELSE IF initialized
               THEN initializeData([j \in Keys |-> AbsentItem], 1,
                                   [j \in FinanceKeys |-> TRUE]).store[k]
               ELSE AbsentItem]
  /\ now = 3
  /\ last = KeysCall("none", ls)

WriteAddTodo ==
  \E todoData \in TodoInputs, setItemOk \in BOOLEAN :
    /\ last.op = "none"
    /\ ls' = addTodo(ls, todoData, now, 0, now, setItemOk).store
    /\ last' = KeysCall("addTodo", ls)
    /\ UNCHANGED now

WriteUpdateTodo ==
  \E id \in IdArgs(loadTodos(ls)), updateData \in TodoPatches,
     setItemOk \in BOOLEAN :
    /\ last.op = "none"
    /\ ls' = updateTodo(ls, id, updateData, setItemOk).store
    /\ last' = KeysCall("updateTodo", ls)
    /\ UNCHANGED now

WriteToggleTodo ==
  \E id \in IdArgs(loadTodos(ls)), setItemOk \in BOOLEAN :
    /\ last.op = "none"
    /\ ls' = toggleTodo(ls, id, setItemOk).store
    /\ last' = KeysCall("toggleTodo", ls)
    /\ UNCHANGED now

WriteDeleteTodo ==
  \E id \in IdArgs(loadTodos(ls)), setItemOk \in BOOLEAN :
    /\ last.op = "none"
    /\ ls' = deleteTodo(ls, id, setItemOk).store
    /\ last' = KeysCall("deleteTodo", ls)
    /\ UNCHANGED now

WriteClearAllTodos ==
  \E setItemOk \in BOOLEAN :
    /\ last.op = "none"
    /\ ls' = clearAllTodos(ls, setItemOk).store
    /\ last' = KeysCall("clearAllTodos", ls)
    /\ UNCHANGED now

WriteAddExpense ==
  \E expenseData \in ExpenseInputs, setItemOk \in BOOLEAN :
    /\ last.op = "none"
    /\ ls' = addExpense(ls, expenseData, now, 0, now, setItemOk).store
    /\ last' = KeysCall("addExpense", ls)
    /\ UNCHANGED now

WriteUpdateExpense ==
  \E id \in IdArgs(loadExpenses(ls)), updateData \in ExpensePatches,
     setItemOk \in BOOLEAN :
    /\ last.op = "none"
    /\ ls' = updateExpense(ls, id, updateData, setItemOk).store
    /\ last' = KeysCall("updateExpense", ls)
    /\ UNCHANGED now

WriteDeleteExpense ==
  \E id \in IdArgs(loadExpenses(ls)), setItemOk \in BOOLEAN :
    /\ last.op = "none"
    /\ ls' = deleteExpense(ls, id, setItemOk).store
    /\ last' = KeysCall("deleteExpense", ls)
    /\ UNCHANGED now

WriteClearAllExpenses ==
  \E setItemOk \in BOOLEAN :
    /\ last.op = "none"
    /\ ls' = clearAllExpenses(ls, setItemOk).store
    /\ last' = KeysCall("clearAllExpenses", ls)
    /\ UNCHANGED now

WriteInitializeData ==
  \E oks \in [FinanceKeys -> BOOLEAN] :
    /\ last.op = "none"
    /\ ls' = initializeData(ls, now, oks).store
    /\ last' = KeysCall("initializeData", ls)
    /\ UNCHANGED now

\* clearAllData, callable once the module has loaded
WriteClearAllData ==
  \E oks \in [FinanceKeys -> BOOLEAN] :
    /\ last.op = "none"
    /\ ls[SETTINGS].kind # "absent"
    /\ ls' = clearAllData(ls, now, oks).store
    /\ last' = KeysCall("clearAllData", ls)
    /\ UNCHANGED now

NextKeys ==
  \/ WriteAddTodo
  \/ WriteUpdateTodo
  \/ WriteToggleTodo
  \/ WriteDeleteTodo
  \/ WriteClearAllTodos
  \/ WriteAddExpense
  \/ WriteUpdateExpense
  \/ WriteDeleteExpense
  \/ WriteClearAllExpenses
  \/ WriteInitializeData
  \/ WriteClearAllData

SpecKeys == InitKeys /\ [][NextKeys]_vars

(***************************************************************************)
(* The order of the records: SpecOrder starts from a store one of the two  *)
(* services has filled with MaxKept records, each added in a millisecond   *)
(* of its own, and makes up to MaxCalls calls of add, update, toggle and   *)
(* delete on it; the clock moves on by a millisecond at every add.  `last` *)
(* keeps the most recent call as in Spec, the number of calls made, and    *)
(* the creation timestamps of the records added so far, in the order of    *)
(* the add calls that stored them.                                         *)
(***************************************************************************)
MaxKept == 3
MaxCalls == 2

RECURSIVE TodosAdded(_, _)
TodosAdded(data, n) ==
  IF n = 0 THEN [k \in Keys |-> AbsentItem]
  ELSE addTodo(TodosAdded(data, n - 1), data[n], n, 0, n, TRUE).store

RECURSIVE ExpensesAdded(_, _)
ExpensesAdded(data, n) ==
  IF n = 0 THEN [k \in Keys |-> AbsentItem]
  ELSE addExpense(ExpensesAdded(data, n - 1), data[n], n, 0, n, TRUE).store

OrderCall(call, inserted) ==
  call @@ [inserted |-> inserted, calls |-> last.calls + 1]

InitOrder ==
  /\ \E todos \in [1..MaxKept -> TodoInputs],
        expenses \in [1..MaxKept -> ExpenseInputs] :
       ls \in {TodosAdded(todos, MaxKept), ExpensesAdded(expenses, MaxKept)}
  /\ now = MaxKept + 1
  /\ last = NoCall @@ [inserted |-> [i \in 1..MaxKept |-> i], calls |-> 0]

OrderAddTodo ==
  LET pre == loadTodos(ls)
  IN  /\ Untouched(ls, EXPENSES_STORAGE_KEY)
      /\ last.calls < MaxCalls
      /\ \E todoData \in TodoInputs, r \in RandomParts, setItemOk \in BOOLEAN :
           LET out == addTodo(ls, todoData, now, r, now, setItemOk)
           IN  /\ ls' = out.store
               /\ now' = now + 1
               /\ last' = OrderCall(Call("addTodo", MissingId, pre, out, setItemOk),
                                    IF setItemOk THEN Append(last.inserted, now)
                                    ELSE last.inserted)

OrderUpdateTodo ==
  LET pre == loadTodos(ls)
  IN  /\ Untouched(ls, EXPENSES_STORAGE_KEY)
      /\ last.calls < MaxCalls
      /\ \E id \in IdArgs(pre), updateData \in TodoPatches, setItemOk \in BOOLEAN :
           LET out == updateTodo(ls, id, updateData, setItemOk)
           IN  /\ out.wrote \/ setItemOk
               /\ ls' = out.store
               /\ last' = OrderCall([Call("updateTodo", id, pre, out, setItemOk)
                                       EXCEPT !.arg = <<updateData>>],
                                    last.inserted)
               /\ UNCHANGED now

OrderToggleTodo ==
  LET pre == loadTodos(ls)
  IN  /\ Untouched(ls, EXPENSES_STORAGE_KEY)
      /\ last.calls < MaxCalls
      /\ \E id \in IdArgs(pre), setItemOk \in BOOLEAN :
           LET out == toggleTodo(ls, id, setItemOk)
           IN  /\ out.wrote \/ setItemOk
               /\ ls' = out.store
               /\ last' = OrderCall(Call("toggleTodo", id, pre, out, setItemOk),
                                    last.inserted)
               /\ UNCHANGED now

OrderDeleteTodo ==
  LET pre == loadTodos(ls)
  IN  /\ Untouched(ls, EXPENSES_STORAGE_KEY)
      /\ last.calls < MaxCalls
      /\ \E id \in IdArgs(pre), setItemOk \in BOOLEAN :
           LET out == deleteTodo(ls, id, setItemOk)
           IN  /\ out.wrote \/ setItemOk
               /\ ls' = out.store
               /\ last' = OrderCall(Call("deleteTodo", id, pre, out, setItemOk),
                                    last.inserted)
               /\ UNCHANGED now

OrderAddExpense ==
  LET pre == loadExpenses(ls)
  IN  /\ Untouched(ls, TODOS_STORAGE_KEY)
      /\ last.calls < MaxCalls
      /\ \E expenseData \in ExpenseInputs, r \in RandomParts, setItemOk \in BOOLEAN :
           LET out == addExpense(ls, expenseData, now, r, now, setItemOk)
           IN  /\ ls' = out.store
               /\ now' = now + 1
               /\ last' = OrderCall(Call("addExpense", MissingId, pre, out, setItemOk),
                                    IF setItemOk THEN Append(last.inserted, now)
                                    ELSE last.inserted)

OrderUpdateExpense ==
  LET pre == loadExpenses(ls)
  IN  /\ Untouched(ls, TODOS_STORAGE_KEY)
      /\ last.calls < MaxCalls
      /\ \E id \in IdArgs(pre), updateData \in ExpensePatches, setItemOk \in BOOLEAN :
           LET out == updateExpense(ls, id, updateData, setItemOk)
           IN  /\ out.wrote \/ setItemOk
               /\ ls' = out.store
               /\ last' = OrderCall([Call("updateExpense", id, pre, out, setItemOk)
                                       EXCEPT !.arg = <<updateData>>],
                                    last.inserted)
               /\ UNCHANGED now

OrderDeleteExpense ==
  LET pre == loadExpenses(ls)
  IN  /\ Untouched(ls, TODOS_STORAGE_KEY)
      /\ last.calls < MaxCalls
      /\ \E id \in IdArgs(pre), setItemOk \in BOOLEAN :
           LET out == deleteExpense(ls, id, setItemOk)
           IN  /\ out.wrote \/ setItemOk
               /\ ls' = out.store
               /\ last' = OrderCall(Call("deleteExpense", id, pre, out, setItemOk),
                                    last.inserted)
               /\ UNCHANGED now

NextOrder ==
  \/ OrderAddTodo
  \/ OrderUpdateTodo
  \/ OrderToggleTodo
  \/ OrderDeleteTodo
  \/ OrderAddExpense
  \/ OrderUpdateExpense
  \/ OrderDeleteExpense

SpecOrder == InitOrder /\ [][NextOrder]_vars

(***************************************************************************)
(* The last call, as the claims read it.                                   *)
(***************************************************************************)
TodoOps == {"addTodo", "updateTodo", "toggleTodo", "deleteTodo", "clearAllTodos"}
AddOps == {"addTodo", "addExpense"}
UpdateOps == {"updateTodo", "updateExpense"}
DeleteOps == {"deleteTodo", "deleteExpense"}
ClearOps == {"clearAllTodos", "clearAllExpenses"}

\* getAll() of the repository the last call belongs to, called now
GetAllNow == IF last.op \in TodoOps THEN getAllTodos(ls) ELSE getAllExpenses(ls)

NoDuplicateId(arr) ==
  \A i \in 1..Len(arr) : \A j \in 1..Len(arr) : arr[i].id = arr[j].id => i = j

\* C1: a record returned by add (addTodo / addExpense) has an id that no
\* record stored before the call has, and getAll() afterwards is the previous
\* sequence followed by exactly that record.
C1_AddReturnsFreshId ==
  (last.op \in AddOps /\ last.res # <<>>) =>
    /\ last.res[1].id \notin IdsOf(last.pre)
    /\ GetAllNow = Append(last.pre, last.res[1])

\* C2: no two records of the todo sequence have the same id, and no two
\* records of the ledger sequence have the same id.
C2_IdsUnique ==
  /\ NoDuplicateId(getAllTodos(ls))
  /\ NoDuplicateId(getAllExpenses(ls))

\* C3: update, toggleCompletion and delete called with an id that no stored
\* record has write nothing, leave the stored sequence as it was, and return
\* null, null and false.
C3_MissingIdNoEffect ==
  (last.op \in (UpdateOps \cup DeleteOps \cup {"toggleTodo"})
     /\ last.id \notin IdsOf(last.pre)) =>
    /\ ~last.wrote
    /\ GetAllNow = last.pre
    /\ last.op \in (UpdateOps \cup {"toggleTodo"}) => last.res = <<>>
    /\ last.op \in DeleteOps => last.flag = FALSE

C3_Witness ==
  /\ last.op \in {"updateExpense", "toggleTodo"}
  /\ last.pre # <<>>
  /\ last.id \notin IdsOf(last.pre)

\* C4 (as claimed): after delete(id), whatever its outcome, getAll() holds no
\* record with that id.
C4_DeletedIdGone ==
  last.op \in DeleteOps => last.id \notin IdsOf(GetAllNow)

\* C4 (amended): after a delete(id) whose persist write did not fail,
\* getAll() holds no record with that id.
C4_DeletedIdGoneIfSaved ==
  (last.op \in DeleteOps /\ last.ok) => last.id \notin IdsOf(GetAllNow)

C4_Witness ==
  /\ last.op \in DeleteOps
  /\ last.wrote
  /\ last.ok
  /\ Len(last.pre) = 2
  /\ Len(GetAllNow) = 1

\* C5 (as claimed): for a stored todo, the second of two toggleCompletion(id)
\* calls in a row leaves its completion flag as it was before the first.
C5_ToggleTwiceRestores ==
  (last.op = "toggleTodo" /\ last.twice) =>
    CompletedOf(getAllTodos(ls), last.id) = last.orig

\* C5 (amended): the same, unless the persist write of exactly one of the two
\* calls fails.
C5_ToggleTwiceRestoresIfBothSaved ==
  (last.op = "toggleTodo" /\ last.twice /\ last.firstOk = last.ok) =>
    CompletedOf(getAllTodos(ls), last.id) = last.orig

C5_Witness ==
  /\ last.op = "toggleTodo"
  /\ last.twice
  /\ last.firstOk
  /\ last.ok
  /\ last.res # <<>>

\* C9: when the persist write of add, update, toggleCompletion, delete or
\* clearAll fails, the stored sequence read afterwards is what it was before
\* the call, add / update / toggleCompletion return null and clearAll
\* returns false.
C9_FailedWriteNoEffect ==
  (last.wrote /\ ~last.ok) =>
    /\ GetAllNow = last.pre
    /\ last.op \in (AddOps \cup UpdateOps \cup {"toggleTodo"}) => last.res = <<>>
    /\ last.op \in ClearOps => last.flag = FALSE

C9_Witness ==
  /\ last.op \in (AddOps \cup UpdateOps \cup {"toggleTodo"})
  /\ last.wrote
  /\ ~last.ok
  /\ last.pre # <<>>

\* C10 (as claimed): delete(id) returns true whenever a stored record has
\* that id, also when the persist write fails, and false only when none has.
C10_DeleteTrueIffMatched ==
  last.op \in DeleteOps => (last.flag <=> last.id \in IdsOf(last.pre))

\* C10 (amended): delete(id) returns true exactly when a stored record has
\* that id and the persist write succeeds; it returns false when no record
\* matched and when the write fails.
C10_DeleteTrueIffMatchedAndSaved ==
  last.op \in DeleteOps =>
    (last.flag <=> (last.id \in IdsOf(last.pre) /\ last.ok))

C10_Witness ==
  /\ last.op \in DeleteOps
  /\ last.id \in IdsOf(last.pre)
  /\ ~last.ok
  /\ ~last.flag

\* new is old with every field of patch written over the field of that name
MergedWith(old, patch, new) ==
  /\ DOMAIN new = (DOMAIN old) \cup (DOMAIN patch)
  /\ \A f \in DOMAIN patch : new[f] = patch[f]
  /\ \A f \in (DOMAIN old) \ (DOMAIN patch) : new[f] = old[f]

\* the update returned the merged record and the stored sequence holds it at
\* the position of the record it replaced, the other records as they were
UpdateMerged ==
  LET index == findIndex(last.pre, last.id)
      stored == GetAllNow
  IN  /\ last.res # <<>>
      /\ MergedWith(last.pre[index], last.arg[1], last.res[1])
      /\ Len(stored) = Len(last.pre)
      /\ \A i \in 1..Len(stored) :
           stored[i] = IF i = index THEN last.res[1] ELSE last.pre[i]

\* C11 (as claimed): update(id, patch) for an id a stored record has returns
\* the old record with the fields of patch written over it, and the stored
\* sequence then holds that record at the same position, every other record
\* and the order unchanged.
C11_UpdateMerges ==
  (last.op \in UpdateOps /\ last.id \in IdsOf(last.pre)) => UpdateMerged

\* C11 (amended): the same, for an update whose persist write did not fail.
C11_UpdateMergesIfSaved ==
  (last.op \in UpdateOps /\ last.id \in IdsOf(last.pre) /\ last.ok) =>
    UpdateMerged

C11_Witness ==
  /\ last.op \in UpdateOps
  /\ last.ok
  /\ Len(last.pre) = 2
  /\ last.id = last.pre[2].id
  /\ last.id # last.pre[1].id
  /\ last.res # <<>>
  /\ last.res[1] # last.pre[2]
  /\ GetAllNow = <<last.pre[1], last.res[1]>>

\* a is b with some records left out, the others in the order they had
RECURSIVE IsSubsequence(_, _)
IsSubsequence(a, b) ==
  IF a = <<>> THEN TRUE
  ELSE IF b = <<>> THEN FALSE
  ELSE IF Head(a) = Head(b) THEN IsSubsequence(Tail(a), Tail(b))
  ELSE IsSubsequence(a, Tail(b))

\* the creation timestamps of the records, in the order getAll() has them
CreatedAts(arr) == <<>> \o [i \in 1..Len(arr) |-> arr[i].createdAt]

\* C15: getAll() is in insertion order: add puts the new record after all
\* the records stored before, update and toggleCompletion leave every record
\* at its position, and delete leaves the remaining records in the order
\* they had; so the records of getAll() are, after any calls, in the order
\* in which the add calls stored them.
C15_InsertionOrderKept ==
  LET stored == GetAllNow
      index == findIndex(last.pre, last.id)
  IN  /\ (last.op \in AddOps /\ last.ok) =>
           /\ Len(stored) = Len(last.pre) + 1
           /\ SubSeq(stored, 1, Len(last.pre)) = last.pre
           /\ stored[Len(stored)] = last.res[1]
      /\ (last.op \in AddOps /\ ~last.ok) => stored = last.pre
      /\ last.op \in UpdateOps =>
           /\ Len(stored) = Len(last.pre)
           /\ \A i \in 1..Len(stored) :
                \/ stored[i] = last.pre[i]
                \/ i = index /\ MergedWith(last.pre[i], last.arg[1], stored[i])
      /\ last.op = "toggleTodo" =>
           /\ Len(stored) = Len(last.pre)
           /\ \A i \in 1..Len(stored) :
                \/ stored[i] = last.pre[i]
                \/ i = index
                     /\ stored[i] = [last.pre[i] EXCEPT !.completed = ~@]
      /\ last.op \in DeleteOps => IsSubsequence(stored, last.pre)
      /\ IsSubsequence(CreatedAts(getAllTodos(ls)) \o CreatedAts(getAllExpenses(ls)),
                       last.inserted)

\* a record was added after three others, and the second of the four was
\* then deleted: the other three are left, in the order they had
C15_Witness ==
  /\ last.op \in DeleteOps
  /\ last.ok
  /\ last.calls = 2
  /\ Len(last.pre) = 4
  /\ last.id = last.pre[2].id
  /\ GetAllNow = <<last.pre[1], last.pre[3], last.pre[4]>>
  /\ Len(last.inserted) = 4
  /\ CreatedAts(GetAllNow) = <<last.inserted[1], last.inserted[3], last.inserted[4]>>

(***************************************************************************)
(* Two tabs, as the claim states them.                                     *)
(***************************************************************************)
\* the sequence the call makes of the sequence it read, nothing else
WrittenBy(c) == RunOp(SnapStore(ls, c), c, TRUE).store[KeyOf(c.op)]

\* C16: with two tabs whose calls interleave, the stored sequence of a key
\* is the one the last write to complete wrote, made from what that writer
\* read: what the other tab stored between that read and that write is not
\* in it, and nothing is merged.
C16_LastWriterWins ==
  \A key \in {TODOS_STORAGE_KEY, EXPENSES_STORAGE_KEY} :
    last.writer[key] # 0 => ls[key] = WrittenBy(last.calls[last.writer[key]])

\* the lost update: both tabs read the same sequence and both added a todo;
\* the second to write stored the sequence it read plus its own record
C16_Witness ==
  /\ last.writer[TODOS_STORAGE_KEY] = 1
  /\ last.calls[1].op = "addTodo"
  /\ last.calls[2].op = "addTodo"
  /\ last.calls[2].saved
  /\ last.calls[1].snap = last.calls[2].snap
  /\ last.calls[1].r # last.calls[2].r
  /\ Len(loadTodos(ls)) = Len(JSONparse(last.calls[1].snap)) + 1
  /\ \A i \in 1..Len(loadTodos(ls)) :
       loadTodos(ls)[i].id # generateId(last.calls[2].t, last.calls[2].r)

(***************************************************************************)
(* Creation, as the claims state it.                                       *)
(***************************************************************************)
\* C13: a ledger record created by add has a numeric amount: whether the
\* caller gives the amount as a number or as numeric text, the returned and
\* the stored amount are the parsed number.
C13_AmountStoredAsNumber ==
  (last.op = "addExpense" /\ last.res # <<>>) =>
    LET parsed == parseFloat(last.arg[1].amount)
        stored == getAllExpenses(ls)
    IN  /\ parsed.k = "num"
        /\ last.res[1].amount = parsed
        /\ stored[Len(stored)].amount = parsed

\* C14: the id and the creation timestamp of a record returned by add are the
\* ones the service generated during the call, also when the caller's data
\* has id or createdAt fields.
C14_IdAndTimestampGenerated ==
  (last.op \in AddOps /\ last.res # <<>>) =>
    /\ last.res[1].id = generateId(last.t, last.r)
    /\ last.res[1].createdAt = last.t2

(***************************************************************************)
(* The statistics, as the claims state them.                               *)
(***************************************************************************)
IsLeapYear(y) == y % 4 = 0 /\ (y % 100 # 0 \/ y % 400 = 0)

\* the length of month m of year y in the calendar
CalendarMonthLength(y, m) ==
  IF m = 2 THEN (IF IsLeapYear(y) THEN 29 ELSE 28)
  ELSE IF m \in {4, 6, 9, 11} THEN 30
  ELSE 31

\* C7: for a year y and a month m of 1..12, monthlyStats(y, m) is
\* stats(first day of the month, last day of the month), the last day being
\* the calendar length of the month (29 for February of a leap year).
C7_MonthlyStatsIsStatsOfMonth ==
  (last.op = "getMonthlyStats" /\ last.year # 0 /\ last.month # 0) =>
    /\ lastDay(last.year, last.month) = CalendarMonthLength(last.year, last.month)
    /\ last.stats = getExpenseStats(ls, DateStr(last.year, last.month, 1),
                       DateStr(last.year, last.month,
                               CalendarMonthLength(last.year, last.month)))

C7_Witness ==
  /\ last.op = "getMonthlyStats"
  /\ last.year = 2024
  /\ last.month = 2
  /\ last.stats.totalCount = 2
  /\ last.stats.totalExpense = Num(40)

\* the positions of the ledger whose date lies in [startDate, endDate]
InRange(arr, startDate, endDate) ==
  {i \in 1..Len(arr) :
     /\ startDate = NullDate \/ ~StrLess(arr[i].date, startDate)
     /\ endDate = NullDate \/ ~StrLess(endDate, arr[i].date)}

\* the sum of the amounts at the positions, each amount taken as the number
\* it denotes
RECURSIVE SumOfAmounts(_, _)
SumOfAmounts(arr, positions) ==
  IF positions = {} THEN Num(0)
  ELSE LET i == CHOOSE j \in positions : TRUE
       IN  NumberAdd(ToNumber(arr[i].amount),
                     SumOfAmounts(arr, positions \ {i}))

\* C8: stats(startDate, endDate) counts the records dated within the bounds
\* (an omitted bound does not constrain); totalIncome and totalExpense are
\* the sums of the amounts of the income and the expense records among them,
\* the counts are their numbers, and balance = totalIncome - totalExpense.
C8_StatsAreSumsOverRange ==
  last.op = "getExpenseStats" =>
    LET arr == getAllExpenses(ls)
        inRange == InRange(arr, last.startDate, last.endDate)
        income == {i \in inRange : arr[i].type = "income"}
        expense == {i \in inRange : arr[i].type = "expense"}
    IN  /\ last.stats.totalCount = Cardinality(inRange)
        /\ last.stats.incomeCount = Cardinality(income)
        /\ last.stats.expenseCount = Cardinality(expense)
        /\ last.stats.totalIncome = SumOfAmounts(arr, income)
        /\ last.stats.totalExpense = SumOfAmounts(arr, expense)
        /\ last.stats.balance
             = JSSub(SumOfAmounts(arr, income), SumOfAmounts(arr, expense))

(***************************************************************************)
(* The round trip, as the claim states it.                                 *)
(***************************************************************************)
\* every property of the record is defined, its amount, if any, is a
\* number, and its id, if any, a number or a text
WellFormed(rec) ==
  /\ \A f \in DOMAIN rec : ~IsUndefinedProp(rec, f)
  /\ Has(rec, "amount") => rec.amount.k = "num"
  /\ Has(rec, "id") => rec.id.k \in {"num", "str"}

WellFormedSeq(arr) == \A i \in 1..Len(arr) : WellFormed(arr[i])

\* C6 (as claimed): write(key, S) followed by read(key) returns S, for every
\* sequence S of well-formed records.
C6_RoundTrip ==
  (last.op = "read" /\ WellFormedSeq(last.data)) => last.got = last.data

\* C6 (amended): write(key, S) that returns true, followed by read(key),
\* returns S, for every sequence S of well-formed records.
C6_RoundTripIfWritten ==
  (last.op = "read" /\ last.flag /\ WellFormedSeq(last.data)) =>
    last.got = last.data

\* a todo with a text id and a ledger entry with a fractional amount were
\* written, the key holds their JSON texts, and the read returned the two
C6_Witness ==
  /\ last.op = "read"
  /\ last.flag
  /\ Len(last.data) = 2
  /\ WellFormedSeq(last.data)
  /\ last.data[1].id.k = "str"
  /\ last.data[2].amount.b # <<>>
  /\ ls[last.key].items[1].id = Quote(last.data[1].id.s)
  /\ ls[last.key].items[2].amount = <<49, 53, 48, 46, 53>>
  /\ last.got = last.data

(***************************************************************************)
(* Search, as the claim states it.                                         *)
(***************************************************************************)
\* the text of the field contains the keyword, letter case apart; a record
\* without the field has no text to contain it
FieldContains(x, field, keyword) ==
  /\ GetStr(x, field) # Undefined
  /\ includes(toLowerCase(CodeUnits(x[field])), toLowerCase(CodeUnits(keyword)))

\* the records of arr the search is to return, in the order of arr
RECURSIVE Matching(_, _, _)
Matching(arr, field, keyword) ==
  IF arr = <<>> THEN <<>>
  ELSE IF FieldContains(Head(arr), field, keyword)
            \/ FieldContains(Head(arr), "category", keyword)
       THEN <<Head(arr)>> \o Matching(Tail(arr), field, keyword)
  ELSE Matching(Tail(arr), field, keyword)

\* C20: search(keyword) returns, in stored order, exactly the records whose
\* description / text contains the keyword or whose category contains it,
\* letter case apart; a record matching on one of the two fields only is
\* returned.
C20_SearchReturnsMatches ==
  /\ last.op = "searchTodos" =>
       /\ ~last.raised
       /\ last.got = Matching(getAllTodos(ls), "text", last.keyword)
  /\ last.op = "searchExpenses" =>
       /\ ~last.raised
       /\ last.got = Matching(getAllExpenses(ls), "description", last.keyword)

(***************************************************************************)
(* Initialisation and reset, as the claims state them.                     *)
(***************************************************************************)
SettingsPresent(store) == store[SETTINGS].kind # "absent"

\* the key holds the text of an empty array
HoldsEmptySequence(store, key) == store[key] = [kind |-> "array", items |-> <<>>]

\* C17: after clearAllData has returned, the sequences of todos, ledger
\* entries, budgets and templates are empty, getAll() of the todo and of the
\* ledger service return no record, and the settings record is there.
C17_ClearAllDataEmptiesAll ==
  (last.op = "clearAllData" /\ ~last.raised) =>
    /\ \A i \in 1..Len(FinanceSeqKeys) : storage_get(ls, FinanceSeqKeys[i]) = <<>>
    /\ getAllTodos(ls) = <<>>
    /\ getAllExpenses(ls) = <<>>
    /\ SettingsPresent(ls)

\* initializeData found no settings record and has created one, with an
\* empty sequence under each of the four finance_ keys
Initialized ==
  /\ ls[SETTINGS].kind = "object"
  /\ ls[SETTINGS].items[1] = [initialized |-> TRUE, version |-> "2.0",
                              currency |-> "TWD", created_at |-> now]
  /\ \A key \in {"finance_todos", "finance_expenses", "finance_budgets",
                   "finance_templates"} : HoldsEmptySequence(ls, key)

\* C18: initializeData on a store without a settings record
\* creates the settings record {initialized, version, currency, created_at}
\* and an empty sequence under each of the four finance_ keys; on a store
\* with a settings record it changes nothing.
C18_InitializeOnce ==
  last.op = "initializeData" =>
    IF SettingsPresent(last.before) THEN ls = last.before ELSE Initialized

\* C19: once the settings record is there it stays: no step of
\* initializeData, clearAllData or the services, failing writes included,
\* removes it.
C19_SettingsStay ==
  [][SettingsPresent(ls) => SettingsPresent(ls')]_vars

C19_Witness ==
  /\ last.op = "clearAllData"
  /\ last.raised
  /\ SettingsPresent(last.before)
  /\ ls[SETTINGS] = last.before[SETTINGS]
  /\ getAllExpenses(ls) # <<>>

\* C12: read(key) (storage.get, loadTodos, loadExpenses) does not raise; it
\* returns the empty sequence when the key is missing or holds a text that
\* cannot be parsed, and the stored sequence otherwise.
C12_ReadNeverRaises ==
  last.op \in {"get", "read"} =>
    /\ last.got # Raised
    /\ last.got = IF ls[last.key].kind \in {"absent", "corrupt"} THEN <<>>
                  ELSE JSONparse(ls[last.key])

C12_Witness ==
  /\ last.op = "get"
  /\ last.key \in {"finance_todos", TODOS_STORAGE_KEY}
  /\ ls[last.key] = CorruptItem
  /\ last.got = <<>>

(***************************************************************************)
(* The queries.                                                            *)
(***************************************************************************)
\* the positions of the records of arr in the scope of a date (every
\* position for an omitted date)
DatedAt(arr, date) ==
  {i \in 1..Len(arr) : date = NullDate \/ arr[i].date = date}

WithPriority(arr, positions, priority) ==
  Cardinality({i \in positions : GetStr(arr[i], "priority") = priority})

\* C21: todo stats(date?) over the todos in scope (all of them, or those
\* whose date equals the given date) returns total = their number,
\* completed = the number of them with the completion flag set, pending =
\* the number without it, and high / medium / low = the number with each
\* priority.
C21_TodoStatsCount ==
  last.op = "getTodoStats" =>
    LET todos == getAllTodos(ls)
        scope == DatedAt(todos, last.date)
    IN  /\ last.out.total = Cardinality(scope)
        /\ last.out.completed = Cardinality({i \in scope : todos[i].completed})
        /\ last.out.pending = Cardinality({i \in scope : ~todos[i].completed})
        /\ last.out.high = WithPriority(todos, scope, "high")
        /\ last.out.medium = WithPriority(todos, scope, "medium")
        /\ last.out.low = WithPriority(todos, scope, "low")

\* the example: stats over {high, open}, {high, completed}, {low, open},
\* scoped to a date that only two of the three todos have
C21_Witness ==
  /\ last.op = "getTodoStats"
  /\ last.date = DateStr(2025, 6, 1)
  /\ getTodoStats(ls, NullDate) =
       [total |-> 3, completed |-> 1, pending |-> 2,
        high |-> 2, medium |-> 0, low |-> 1]
  /\ last.out = [total |-> 2, completed |-> 1, pending |-> 1,
                 high |-> 2, medium |-> 0, low |-> 0]

\* the positions of the records of arr of a type (every position for an
\* omitted type)
OfType(arr, type) ==
  {i \in 1..Len(arr) : type = "" \/ GetStr(arr[i], "type") = type}

InCategory(arr, positions, category) ==
  {i \in positions : GetStr(arr[i], "category") = category}

\* C22: categoryStats(type?) has one entry per distinct category among the
\* ledger records in scope (all of them, or those of the given type); the
\* entry's count is the number of in-scope records of the category and its
\* total is the sum of their amounts, so the counts add up to the number of
\* records in scope.
C22_CategoryStatsCountAndSum ==
  last.op = "getCategoryStats" =>
    LET expenses == getAllExpenses(ls)
        scope == OfType(expenses, last.key)
    IN  /\ last.out # RaisedTypeError
        /\ DOMAIN last.out = {GetStr(expenses[i], "category") : i \in scope}
        /\ \A category \in DOMAIN last.out :
             /\ last.out[category].count =
                  Cardinality(InCategory(expenses, scope, category))
             /\ last.out[category].total =
                  SumOfAmounts(expenses, InCategory(expenses, scope, category))

\* C24: the dashboard's monthly completion rate is computed over the todos
\* dated in the current month only, so it equals the monthly completion rate
\* of the calendar page: round(100 * completed / total) over this month's
\* todos, 0 when there are none.
C24_DashboardRateIsMonthRate ==
  last.op = "monthlyRates" =>
    LET todos == getAllTodos(ls)
        month == {i \in 1..Len(todos) :
                    startsWith(todos[i].date, currentMonth(NowYear, NowMonth))}
        completed == Cardinality({i \in month : todos[i].completed})
        total == Cardinality(month)
    IN  /\ last.out.dashboard = last.out.calendar
        /\ last.out.dashboard =
             IF total = 0 THEN 0 ELSE (200 * completed + total) \div (2 * total)

\* the records of arr at the positions of a set, in the order of arr
RECURSIVE AtPositions(_, _, _)
AtPositions(arr, positions, i) ==
  IF i > Len(arr) THEN <<>>
  ELSE (IF i \in positions THEN <<arr[i]>> ELSE <<>>)
         \o AtPositions(arr, positions, i + 1)

WithField(arr, field, value) ==
  AtPositions(arr, {i \in 1..Len(arr) : GetStr(arr[i], field) = value}, 1)

WithDate(arr, date) ==
  AtPositions(arr, {i \in 1..Len(arr) : arr[i].date = date}, 1)

FilterOps ==
  {"getTodosByDate", "getTodosByCategory", "getTodosByPriority",
   "getExpensesByDate", "getExpensesByType", "getExpensesByCategory"}

\* C25: getByDate, getByCategory, getByType and getByPriority return exactly
\* the records of getAll() whose date, category, type or priority equals the
\* argument, in the order of getAll(), and the empty sequence when no record
\* matches.
C25_FiltersExact ==
  /\ last.op = "getTodosByDate" =>
       last.out = WithDate(getAllTodos(ls), last.date)
  /\ last.op = "getTodosByCategory" =>
       last.out = WithField(getAllTodos(ls), "category", last.key)
  /\ last.op = "getTodosByPriority" =>
       last.out = WithField(getAllTodos(ls), "priority", last.key)
  /\ last.op = "getExpensesByDate" =>
       last.out = WithDate(getAllExpenses(ls), last.date)
  /\ last.op = "getExpensesByType" =>
       last.out = WithField(getAllExpenses(ls), "type", last.key)
  /\ last.op = "getExpensesByCategory" =>
       last.out = WithField(getAllExpenses(ls), "category", last.key)

\* a filter by category kept the first and the third of three todos, which
\* differ, and left the second out
C25_Witness ==
  /\ last.op = "getTodosByCategory"
  /\ Len(getAllTodos(ls)) = 3
  /\ Len(last.out) = 2
  /\ last.out[1] = getAllTodos(ls)[1]
  /\ last.out[2] = getAllTodos(ls)[3]
  /\ last.out[1].text # last.out[2].text

\* the date bounds of the statistics, NullDate for an omitted one
QueryBounds == QueryDates \cup {NullDate}

LedgerCountsAddUp(store) ==
  \A startDate \in QueryBounds, endDate \in QueryBounds :
    LET stats == getExpenseStats(store, startDate, endDate)
    IN  stats.totalCount = stats.incomeCount + stats.expenseCount

TodoFlagsAddUp(store) ==
  \A date \in QueryBounds :
    LET stats == getTodoStats(store, date)
    IN  stats.total = stats.completed + stats.pending

TodoPrioritiesAddUp(store) ==
  \A date \in QueryBounds :
    LET stats == getTodoStats(store, date)
    IN  stats.total = stats.high + stats.medium + stats.low

\* C28 (as claimed): in every reachable state of the store and for every
\* date range, the ledger stats satisfy totalCount = incomeCount +
\* expenseCount, and the todo stats satisfy total = completed + pending and
\* total = high + medium + low.
C28_CountsAddUp ==
  /\ LedgerCountsAddUp(ls)
  /\ TodoFlagsAddUp(ls)
  /\ TodoPrioritiesAddUp(ls)

TypesKnown(arr) ==
  \A i \in 1..Len(arr) : GetStr(arr[i], "type") \in {"income", "expense"}

PrioritiesKnown(arr) ==
  \A i \in 1..Len(arr) : GetStr(arr[i], "priority") \in {"high", "medium", "low"}

\* C28 (amended): in every reachable state of the store and for every date
\* range, the todo stats satisfy total = completed + pending; the ledger
\* stats satisfy totalCount = incomeCount + expenseCount when the type of
\* every ledger record is income or expense, and the todo stats satisfy
\* total = high + medium + low when the priority of every todo is high,
\* medium or low.
C28_CountsAddUpForKnownValues ==
  /\ TodoFlagsAddUp(ls)
  /\ TypesKnown(getAllExpenses(ls)) => LedgerCountsAddUp(ls)
  /\ PrioritiesKnown(getAllTodos(ls)) => TodoPrioritiesAddUp(ls)

\* statistics asked over a range that leaves a record out, on a ledger of
\* incomes and expenses
C28_Witness ==
  /\ last.op = "getExpenseStats"
  /\ last.date # NullDate
  /\ TypesKnown(getAllExpenses(ls))
  /\ last.out.expenseCount >= 1
  /\ last.out.totalCount < Len(getAllExpenses(ls))
  /\ getExpenseStats(ls, NullDate, NullDate).incomeCount >= 1

\* every key of the store is as it was before the first query
StoreAsBefore == \A k \in Keys : ls[k] = last.before[k]

\* the query before the latest one was the same call: the same function
\* with the same arguments
RepeatsFirst == last.first # NoFirst

\* C27: every query and aggregation (getAll, getByDate, getByCategory,
\* getByType, getByPriority, getByDateRange, search, stats, monthlyStats,
\* categoryStats, todo stats) leaves every key of the store as it was, and a
\* query that repeats the one before it returns what that one returned.
C27_QueriesChangeNothing ==
  last.op # "none" =>
    /\ StoreAsBefore
    /\ RepeatsFirst => last.out = last.first[1]

(***************************************************************************)
(* The completion messages.                                                *)
(***************************************************************************)
\* 0 without todos in scope, round(100 * completed / total) otherwise
Percent(completed, total) ==
  IF total = 0 THEN 0 ELSE (200 * completed + total) \div (2 * total)

\* the documented table
TableMessage(op, percent) ==
  IF op = "selectedDate"
  THEN IF percent = 100 THEN "day_all"
       ELSE IF percent >= 80 THEN "day_almost"
       ELSE IF percent >= 50 THEN "day_half"
       ELSE IF percent >= 1 THEN "day_many"
       ELSE "day_none"
  ELSE IF percent = 100 THEN "month_all"
       ELSE IF percent >= 80 THEN "month_excellent"
       ELSE IF percent >= 60 THEN "month_good"
       ELSE IF percent >= 1 THEN "month_room"
       ELSE "month_none"

\* C26: with percent = 0 when there are no todos in scope and round(100 *
\* completed / total) otherwise, the message under a completion bar follows
\* the documented table (100: all tasks completed; 80..99: almost done;
\* 50..79, 60..79 for the month: over half / good progress; 1..49, 1..59 for
\* the month: many tasks remaining; 0: no todos yet), and the 'all tasks
\* completed' message appears only when every todo in scope is completed.
C26_MessageFollowsTable ==
  last.op # "none" =>
    /\ last.message = TableMessage(last.op, Percent(last.completed, last.total))
    /\ last.message \in {"day_all", "month_all"} => last.completed = last.total

(***************************************************************************)
(* The monthly budget.                                                     *)
(***************************************************************************)
\* the key of the month the page displayed when the latest action began
\* (saveBudget leaves the month as it is)
ShownKey == budgetKey(last.page.year, last.page.month)

\* saveBudget ran with a text in the input
SavedWithInput == last.op = "saveBudget" /\ last.page.tempBudget # <<>>

\* C23 (as claimed): saving a budget for the displayed month M stores one
\* numeric value under the key budget-M, replacing the value saved earlier
\* for M, and leaves the budget of every other month and the ledger sequence
\* unchanged; saving with an empty input changes nothing.
C23_SaveBudgetStoresUnderMonth ==
  /\ SavedWithInput =>
       /\ ls[ShownKey] = TextItem(last.page.tempBudget)
       /\ parseFloat(Str(ls[ShownKey].items)).k = "num"
       /\ \A k \in AllKeys \ {ShownKey} : ls[k] = last.before[k]
  /\ (last.op = "saveBudget" /\ last.page.tempBudget = <<>>) =>
       ls = last.before

\* C23 (amended): saving a budget for the displayed month M, when the write
\* does not fail, stores one numeric value under the key budget-M, replacing
\* the value saved earlier for M; whether the write fails or not, it leaves
\* the budget of every other month and the ledger sequence unchanged, and a
\* failed write leaves the budget of M unchanged too; saving with an empty
\* input changes nothing.
C23_SaveBudgetStoresUnderMonthIfWritten ==
  /\ (SavedWithInput /\ last.setItemOk) =>
       /\ ls[ShownKey] = TextItem(last.page.tempBudget)
       /\ parseFloat(Str(ls[ShownKey].items)).k = "num"
  /\ SavedWithInput =>
       \A k \in AllKeys \ {ShownKey} : ls[k] = last.before[k]
  /\ (SavedWithInput /\ ~last.setItemOk) => ls = last.before
  /\ (last.op = "saveBudget" /\ last.page.tempBudget = <<>>) =>
       ls = last.before

\* a budget of 800 saved for a month that had 500, while another month has
\* a budget and the ledger an entry
C23_Witness ==
  /\ SavedWithInput
  /\ last.setItemOk
  /\ last.before[ShownKey] = TextItem(ToStringNat(500))
  /\ ls[ShownKey] = TextItem(ToStringNat(800))
  /\ \E k \in BudgetKeys \ {ShownKey} : ls[k].kind = "text"
  /\ Len(getAllExpenses(ls)) = 1

\* C30: on the finance page, after any sequence of changeMonth and
\* saveBudget actions, the budget in memory (from which the remaining budget
\* and the usage percentage are computed) equals the value stored under
\* budget-<displayed month>, 0 when that key is absent, and saveBudget
\* writes under no month key other than the displayed one.
C30_BudgetIsOfShownMonth ==
  /\ ~last.page.thrown =>
       last.page.budget = savedBudgetOf(ls, last.page.year, last.page.month)
  /\ last.op = "saveBudget" =>
       \A k \in BudgetKeys \ {ShownKey} : ls[k] = last.before[k]

(***************************************************************************)
(* The keys of the store.                                                  *)
(***************************************************************************)
LedgerOps ==
  {"addExpense", "updateExpense", "deleteExpense", "clearAllExpenses"}

\* every key outside a set holds what it held before the latest call
OnlyChanged(keys) == \A k \in AllKeys \ keys : ls[k] = last.before[k]

\* C29: the storage keys are isolated from one another: the operations of
\* the todo repository change only the key 'todos', those of the ledger
\* repository only the key 'expenses', and initializeData and clearAllData
\* only the finance_* keys, leaving 'todos', 'expenses' and every
\* budget-YYYY-MM key unchanged.
C29_KeysIsolated ==
  /\ last.op \in TodoOps => OnlyChanged({TODOS_STORAGE_KEY})
  /\ last.op \in LedgerOps => OnlyChanged({EXPENSES_STORAGE_KEY})
  /\ last.op \in {"initializeData", "clearAllData"} => OnlyChanged(FinanceKeys)

\* clearAllData has rewritten the finance_* keys of a store that holds
\* todos, ledger entries and budgets
C29_Witness ==
  /\ last.op = "clearAllData"
  /\ ls[SETTINGS] # last.before[SETTINGS]
  /\ Len(getAllTodos(ls)) = 2
  /\ Len(getAllExpenses(ls)) = 2
  /\ \A k \in BudgetKeys : ls[k] = TextItem(ToStringNat(500))

====
